---- MODULE Spec2Model ----
(***************************************************************************)
(* Transaction encoding and signing of deno-eth-wallet: the byte codec     *)
(* (intToBuffer, hexToBuffer, toBuffer), the RLP encoder (rlpEncode,       *)
(* encodeLength) and the three signing operations (Transaction.sign, sign, *)
(* signTransaction), message signing (signMessage), the JSON-RPC client   *)
(* (RpcClient.request), wallet creation (Wallet.create), the wallet file   *)
(* (saveWalletToFile, loadWalletFromFile), the ABI encoder                 *)
(* (encodeFunctionCall), parseUnits, and the send and contract-call        *)
(* commands of the CLI.                                                    *)
(*                                                                         *)
(* Representation.  A JavaScript string is a sequence of one-character     *)
(* strings (<<"0","x","a","b">> is "0xab"); a Uint8Array is a sequence of  *)
(* integers in 0..255.  An RLP input is a record [kind, val]: kind "bytes" *)
(* (a Uint8Array), "string", "number" or "list" (an Array of inputs).      *)
(***************************************************************************)
EXTENDS Integers, Sequences, FiniteSets, TLC

VARIABLES
  fn,         \* codec: the function last called ("none" before any call)
  arg,        \* codec: its argument
  ret,        \* codec: what it returned
  pc,         \* signing: "idle", "awaitHash" (Transaction.sign suspended), "done", "threw"
  op,         \* signing: the operation in progress or last finished
  tx,         \* signing: the transaction object handed to the operation
  privateKey, \* signing: the private key string handed to the operation
  chainIdArg, \* signing: signTransaction's separate chainId parameter
  local,      \* signing: the locals of the call (rlpArray, encoded, msgHash, sig, v, ...)
  result,     \* signing: the string the operation returned
  message,    \* signMessage: the message handed to it
  rpcId,      \* RpcClient: the #rpcId field of each instance
  calls,      \* RpcClient: the calls of request, in the order they were made
  wallet,     \* Wallet: the wallet Wallet.create returned
  tasks,      \* concurrent signing: the call each task has made (its pc, arguments, locals)
  cmd,        \* CLI: the command in progress (its position, locals, requests and reports)
  walletFile  \* CLI: the content of wallet.json

codecVars == <<fn, arg, ret>>
signVars == <<pc, op, tx, privateKey, chainIdArg, local, result>>
rpcVars == <<rpcId, calls>>
walletVars == <<wallet>>
cmdVars == <<tasks, cmd, walletFile>>
extVars == <<message, rpcVars, walletVars, cmdVars>>
vars ==
  <<fn, arg, ret, pc, op, tx, privateKey, chainIdArg, local, result, message, rpcId, calls,
    wallet, tasks, cmd, walletFile>>

(***************************************************************************)
(* Characters and bytes                                                    *)
(***************************************************************************)
Byte == 0..255

\* Number.prototype.toString(16) / BigInt.prototype.toString(16) digits
HexDigits == <<"0","1","2","3","4","5","6","7","8","9","a","b","c","d","e","f">>

\* the upper-case digits Buffer.from(_, 'hex') accepts as well
HexUpper == <<"A","B","C","D","E","F">>

\* the value of each hex digit
HexTable ==
  [c \in {HexDigits[i] : i \in 1..16} |-> (CHOOSE i \in 1..16 : HexDigits[i] = c) - 1]
    @@ [c \in {HexUpper[i] : i \in 1..6} |-> (CHOOSE i \in 1..6 : HexUpper[i] = c) + 9]

IsHexChar(c) == c \in DOMAIN HexTable

HexVal(c) == HexTable[c]

\* a function on 1..n as the array value it describes (new Uint8Array(...), a string)
AsArray(f) == f \o << >>

\* String.prototype.startsWith('0x')
StartsWith0x(s) == Len(s) >= 2 /\ s[1] = "0" /\ s[2] = "x"

\* String.prototype.slice(k) for 0 <= k
Slice(s, k) == IF k >= Len(s) THEN << >> ELSE SubSeq(s, k + 1, Len(s))

\* n.toString(16) for a non-negative integer n
RECURSIVE ToString16(_)
ToString16(n) ==
  IF n < 16 THEN <<HexDigits[n + 1]>>
  ELSE ToString16(n \div 16) \o <<HexDigits[(n % 16) + 1]>>

\* Buffer.from(hex, 'hex'): pairs of digits are decoded from the left; decoding
\* stops, keeping what was decoded, at the first pair that holds a character
\* that is no hex digit, and a last unpaired digit is dropped.  No error.
BufferFromHex(hex) ==
  LET pairs == Len(hex) \div 2
      bad == {i \in 1..pairs : ~IsHexChar(hex[2 * i - 1]) \/ ~IsHexChar(hex[2 * i])}
      n == IF bad = {} THEN pairs ELSE (CHOOSE i \in bad : \A j \in bad : i <= j) - 1
  IN  AsArray([i \in 1..n |-> 16 * HexVal(hex[2 * i - 1]) + HexVal(hex[2 * i])])

\* Buffer.prototype.toString('hex'): two lower-case digits per byte
BufferToHex(buf) ==
  AsArray([i \in 1..(2 * Len(buf)) |->
             IF i % 2 = 1 THEN HexDigits[(buf[(i + 1) \div 2] \div 16) + 1]
             ELSE HexDigits[(buf[i \div 2] % 16) + 1]])

\* the character codes of the characters the model's strings use
CharTable ==
  [c \in {HexDigits[i] : i \in 1..10} |-> 48 + HexTable[c]]
    @@ [c \in {HexDigits[i] : i \in 11..16} |-> 87 + HexTable[c]]
    @@ [c \in {HexUpper[i] : i \in 1..6} |-> 55 + HexTable[c]]
    @@ [c \in {"g"} |-> 103] @@ [c \in {"o"} |-> 111] @@ [c \in {"x"} |-> 120]

CharCode(c) == CharTable[c]

\* Buffer.from(s, 'utf8') / TextEncoder.encode(s) on ASCII text
BufferFromUtf8(s) == AsArray([i \in 1..Len(s) |-> CharCode(s[i])])

\* the code points of the other characters the model's strings use; a character
\* outside ASCII is written by its code point's name
CodePointTable ==
  CharTable
    @@ [c \in {"U+0019"} |-> 25] @@ [c \in {"\n"} |-> 10] @@ [c \in {" "} |-> 32]
    @@ [c \in {":"} |-> 58] @@ [c \in {"M"} |-> 77] @@ [c \in {"S"} |-> 83]
    @@ [c \in {"h"} |-> 104] @@ [c \in {"i"} |-> 105] @@ [c \in {"m"} |-> 109]
    @@ [c \in {"n"} |-> 110] @@ [c \in {"r"} |-> 114] @@ [c \in {"s"} |-> 115]
    @@ [c \in {"t"} |-> 116] @@ [c \in {"u"} |-> 117]
    @@ [c \in {"U+00E9"} |-> 233] @@ [c \in {"U+20AC"} |-> 8364]

CodePoint(c) == CodePointTable[c]

\* the UTF-8 bytes of a code point of the basic plane, all of them in one byte
Utf8OfCodePoint_OneByte(cp) == <<cp % 256>>

\* the UTF-8 bytes of a code point of the basic plane
Utf8OfCodePoint(cp) ==
  IF cp < 128 THEN <<cp>>
  ELSE IF cp < 2048 THEN <<192 + (cp \div 64), 128 + (cp % 64)>>
  ELSE <<224 + (cp \div 4096), 128 + ((cp \div 64) % 64), 128 + (cp % 64)>>

\* the concatenation of the byte strings f[lo..hi]
RECURSIVE ConcatRange(_, _, _)
ConcatRange(f, lo, hi) ==
  IF lo > hi THEN << >>
  ELSE IF lo = hi THEN f[lo]
  ELSE ConcatRange(f, lo, (lo + hi) \div 2) \o ConcatRange(f, ((lo + hi) \div 2) + 1, hi)

\* new TextEncoder().encode(s)
TextEncoderEncode(s) ==
  ConcatRange([i \in 1..Len(s) |-> Utf8OfCodePoint(CodePoint(s[i]))], 1, Len(s))

\* n.toString() for a non-negative integer n
RECURSIVE ToString10(_)
ToString10(n) ==
  IF n < 10 THEN <<HexDigits[n + 1]>>
  ELSE ToString10(n \div 10) \o <<HexDigits[(n % 10) + 1]>>

(***************************************************************************)
(* Byte codec (utils.ts)                                                   *)
(***************************************************************************)
\* both branches (number, bigint) run the same statements
intToBuffer_OddNotPadded(num) ==
  IF num = 0 THEN << >> ELSE BufferFromHex(ToString16(num))

intToBuffer(num) ==
  IF num = 0 THEN << >>
  ELSE LET hex == ToString16(num)
       IN  BufferFromHex(IF Len(hex) % 2 = 1 THEN <<"0">> \o hex ELSE hex)

hexToBuffer(hex) ==
  BufferFromHex(IF StartsWith0x(hex) THEN Slice(hex, 2) ELSE hex)

\* toBuffer with every string read as hex digits
toBuffer_StringsAsHex(input) ==
  CASE input.kind = "bytes" -> input.val
    [] input.kind = "string" -> BufferFromHex(input.val)
    [] input.kind = "number" -> intToBuffer(input.val)

toBuffer(input) ==
  CASE input.kind = "bytes" -> input.val
    [] input.kind = "string" ->
         IF StartsWith0x(input.val) THEN BufferFromHex(Slice(input.val, 2))
         ELSE BufferFromUtf8(input.val)
    [] input.kind = "number" -> intToBuffer(input.val)

encodeLength(len) ==
  LET hex == ToString16(len)
  IN  BufferFromHex(IF Len(hex) % 2 = 1 THEN <<"0">> \o hex ELSE hex)

(***************************************************************************)
(* RLP encoder (utils.ts)                                                  *)
(***************************************************************************)
\* Buffer.concat
RECURSIVE Concat(_)
Concat(bufs) == IF bufs = << >> THEN << >> ELSE Head(bufs) \o Concat(Tail(bufs))

\* rlpEncode with the single-byte case taken for a first byte up to 0x80
RECURSIVE rlpEncode_SingleByteUpTo80(_)
rlpEncode_SingleByteUpTo80(input) ==
  IF input.kind = "list"
  THEN LET encodedElements ==
             AsArray([i \in 1..Len(input.val) |-> rlpEncode_SingleByteUpTo80(input.val[i])])
           concatenated == Concat(encodedElements)
       IN  IF Len(concatenated) < 56
           THEN <<192 + Len(concatenated)>> \o concatenated
           ELSE LET lenBuf == encodeLength(Len(concatenated))
                IN  <<247 + Len(lenBuf)>> \o lenBuf \o concatenated
  ELSE LET buf == toBuffer(input)
       IN  IF Len(buf) = 1 /\ buf[1] <= 128 THEN buf
           ELSE IF Len(buf) < 56 THEN <<128 + Len(buf)>> \o buf
           ELSE LET lenBuf == encodeLength(Len(buf))
                IN  <<183 + Len(lenBuf)>> \o lenBuf \o buf

\* rlpEncode with the list threshold applied to the number of children
RECURSIVE rlpEncode_ThresholdOnCount(_)
rlpEncode_ThresholdOnCount(input) ==
  IF input.kind = "list"
  THEN LET encodedElements ==
             AsArray([i \in 1..Len(input.val) |-> rlpEncode_ThresholdOnCount(input.val[i])])
           concatenated == Concat(encodedElements)
       IN  IF Len(input.val) < 56
           THEN <<192 + Len(concatenated)>> \o concatenated
           ELSE LET lenBuf == encodeLength(Len(concatenated))
                IN  <<247 + Len(lenBuf)>> \o lenBuf \o concatenated
  ELSE LET buf == toBuffer(input)
       IN  IF Len(buf) = 1 /\ buf[1] < 128 THEN buf
           ELSE IF Len(buf) < 56 THEN <<128 + Len(buf)>> \o buf
           ELSE LET lenBuf == encodeLength(Len(buf))
                IN  <<183 + Len(lenBuf)>> \o lenBuf \o buf

RECURSIVE rlpEncode(_)
rlpEncode(input) ==
  IF input.kind = "list"
  THEN LET encodedElements ==
             AsArray([i \in 1..Len(input.val) |-> rlpEncode(input.val[i])])
           concatenated == Concat(encodedElements)
       IN  IF Len(concatenated) < 56
           THEN <<192 + Len(concatenated)>> \o concatenated
           ELSE LET lenBuf == encodeLength(Len(concatenated))
                IN  <<247 + Len(lenBuf)>> \o lenBuf \o concatenated
  ELSE LET buf == toBuffer(input)
       IN  IF Len(buf) = 1 /\ buf[1] < 128 THEN buf
           ELSE IF Len(buf) < 56 THEN <<128 + Len(buf)>> \o buf
           ELSE LET lenBuf == encodeLength(Len(buf))
                IN  <<183 + Len(lenBuf)>> \o lenBuf \o buf

Bytes(b) == [kind |-> "bytes", val |-> b]
Str(s) == [kind |-> "string", val |-> s]
List(l) == [kind |-> "list", val |-> l]

(***************************************************************************)
(* External libraries, as the signing code uses them                       *)
(*                                                                         *)
(* Keccak-256 and secp256k1 are replaced by small stand-ins with the same  *)
(* interface and the same algebra: a 32-byte digest computed from every    *)
(* input byte, and ECDSA with public-key recovery over the additive group  *)
(* of integers modulo the prime CurveN with generator 1, in which the      *)
(* points P and CurveN - P share the x-coordinate min(P, CurveN - P) and   *)
(* differ in the parity bit.                                               *)
(***************************************************************************)
\* the order of the group that stands for secp256k1
CurveN == 11

\* 33^e modulo 32749
RECURSIVE Pow33(_)
Pow33(e) ==
  IF e = 0 THEN 1
  ELSE IF e % 2 = 1 THEN (33 * Pow33(e - 1)) % 32749
  ELSE (Pow33(e \div 2) * Pow33(e \div 2)) % 32749

\* the polynomial sum over msg[lo..hi] of (msg[i] + 1) * 33^(hi - i), modulo 32749
RECURSIVE KeccakFold(_, _, _)
KeccakFold(msg, lo, hi) ==
  IF lo > hi THEN 0
  ELSE IF lo = hi THEN msg[lo] + 1
  ELSE LET mid == (lo + hi) \div 2
       IN  (((KeccakFold(msg, lo, mid) * Pow33(hi - mid)) % 32749)
              + KeccakFold(msg, mid + 1, hi)) % 32749

\* the digest primitive: 32 bytes from a byte string
KeccakBytes(h) == AsArray([i \in 1..32 |-> ((h \div i) + 7 * i + h) % 256])

Keccak256(msg) == KeccakBytes((7 * Pow33(Len(msg)) + KeccakFold(msg, 1, Len(msg))) % 32749)

\* keccak256 of utils.ts: the digest as 64 hex digits, no "0x"
keccak256(msg) == BufferToHex(Keccak256(msg))

\* keccak256 of js-sha3 on a string: hashes the UTF-8 bytes of the text, and
\* returns 64 hex digits
jsSha3Keccak256(text) == BufferToHex(Keccak256(BufferFromUtf8(text)))

\* keccak256 of js-sha3 on a Uint8Array: hashes the bytes, and returns 64 hex digits
jsSha3Keccak256OfBytes(bytes) == BufferToHex(Keccak256(bytes))

\* keccak256 of ethers on a "0x" hex string: hashes the bytes the text denotes,
\* and returns "0x" and 64 hex digits
ethersKeccak256(hex) == <<"0", "x">> \o BufferToHex(Keccak256(BufferFromHex(Slice(hex, 2))))

\* new BN(text, 16): the integer a hex text denotes
RECURSIVE HexToIntUpTo(_, _)
HexToIntUpTo(text, n) ==
  IF n = 0 THEN 0 ELSE 16 * HexToIntUpTo(text, n - 1) + HexVal(text[n])

\* (leading zeros are passed over first)
HexToInt(text) ==
  LET nz == {i \in 1..Len(text) : text[i] # "0"}
      first == IF nz = {} THEN Len(text) + 1 ELSE CHOOSE i \in nz : \A j \in nz : i <= j
      rest == SubSeq(text, first, Len(text))
  IN  HexToIntUpTo(rest, Len(rest))

\* a byte string as an integer modulo CurveN
RECURSIVE BytesModNUpTo(_, _)
BytesModNUpTo(b, n) ==
  IF n = 0 THEN 0 ELSE (256 * BytesModNUpTo(b, n - 1) + b[n]) % CurveN

BytesModN(b) == BytesModNUpTo(b, Len(b))

\* elliptic's _truncateToN: a message longer than the order keeps its leading
\* 32 bytes (the first byte of the messages handed in here is never zero)
TruncateToN(msg) == IF Len(msg) > 32 THEN SubSeq(msg, 1, 32) ELSE msg

InvModN(a) == CHOOSE x \in 1..(CurveN - 1) : (a * x) % CurveN = 1

PointX(P) == IF P <= CurveN \div 2 THEN P ELSE CurveN - P
PointOdd(P) == IF P <= CurveN \div 2 THEN 0 ELSE 1

\* the public key of the private scalar d
PublicKey(d) == d % CurveN

\* ECDSA with nonce k on message msg, in canonical (low-s) form, with the recovery
\* id; s = 0 stands for a nonce the signer rejects
EcdsaSign(d, msg, k) ==
  LET z == BytesModN(TruncateToN(msg))
      r == PointX(k)
      s == (InvModN(k) * (z + r * d)) % CurveN
      lowS == IF s > CurveN \div 2 THEN CurveN - s ELSE s
      recid == IF s > CurveN \div 2 THEN 1 - PointOdd(k) ELSE PointOdd(k)
  IN  [r |-> r, s |-> lowS, recoveryParam |-> recid]

\* recoverPubKey(msg, {r, s}, recid)
RecoverPubKey(msg, r, s, recid) ==
  LET z == BytesModN(TruncateToN(msg))
      R == IF recid = 0 THEN r ELSE CurveN - r
  IN  (InvModN(r) * (s * R + CurveN * CurveN - z)) % CurveN

\* BN.toArrayLike(Uint8Array, 'be', 32) and toCompactHex's fields: big-endian,
\* left-padded with zero bytes to 32 bytes
RECURSIVE BigEndian(_)
BigEndian(n) == IF n = 0 THEN << >> ELSE BigEndian(n \div 256) \o <<n % 256>>

toArrayLike32_Minimal(n) == BigEndian(n)

toArrayLike32(n) == [i \in 1..(32 - Len(BigEndian(n))) |-> 0] \o BigEndian(n)

\* the address of a public key: the last 20 bytes of the digest of its 64-byte
\* encoding, as "0x" and 40 hex digits
PublicKeyToAddress(Q) ==
  LET pub == toArrayLike32(Q) \o toArrayLike32((Q * Q + 7) % CurveN)
  IN  <<"0", "x">> \o BufferToHex(SubSeq(Keccak256(pub), 13, 32))

\* an array of Uint8Array as an RLP input
AsRlpList(arr) == List(AsArray([i \in 1..Len(arr) |-> Bytes(arr[i])]))

\* encodeRlp of ethers and toRlp of viem: the RLP encoding (which rlpEncode
\* computes) as a "0x" hex string
encodeRlp(arr) == <<"0", "x">> \o BufferToHex(rlpEncode(AsRlpList(arr)))

(***************************************************************************)
(* Inputs of the codec specification                                       *)
(***************************************************************************)
\* integers 0..MaxInt, and some of several bytes
MaxInt == 300
SampleInts == {4095, 4096, 65535, 65536, 84532, 169099, 16777215, 16777216,
               1000000000, 2147483647}
IntInputs == (0..MaxInt) \cup SampleInts

\* every string of at most MaxHexLen characters over HexAlphabet
MaxHexLen == 4
HexAlphabet == {"0", "x", "a", "F", "g"}
HexInputs == UNION {[1..n -> HexAlphabet] : n \in 0..MaxHexLen}

\* strings handed to rlpEncode
StringInputs == HexInputs \cup {<<"d", "o", "g">>}

\* byte strings: a first byte, then one byte repeated
MaxStrLen == 57
EdgeBytes == {0, 1, 127, 128, 255}
FillBytes == {0, 200}
LongLens == {255, 256, 300}
Filled(first, fill, len) == AsArray([i \in 1..len |-> IF i = 1 THEN first ELSE fill])
ByteStrings ==
  {Filled(f, g, n) : f \in EdgeBytes, g \in FillBytes, n \in (0..MaxStrLen) \cup LongLens}

\* lists of at most MaxListLen children drawn from LeafPool, and lists of lists
MaxListLen == 3
LeafPool ==
  {Bytes(<< >>), Bytes(<<127>>), Bytes(<<128>>),
   Bytes(Filled(1, 2, 27)), Bytes(Filled(1, 2, 55)),
   List(<< >>), List(<<Bytes(<<1>>), Bytes(<< >>)>>)}
FlatLists == {List(l) : l \in UNION {[1..n -> LeafPool] : n \in 0..MaxListLen}}
NestedPool ==
  {List(<<Bytes(Filled(1, 2, 27)), Bytes(Filled(1, 2, 27))>>),
   List(<<Bytes(Filled(1, 2, 56))>>), List(<<List(<< >>)>>), Bytes(<<128>>)}
NestedLists == {List(l) : l \in UNION {[1..n -> NestedPool] : n \in 1..2}}
Lists == FlatLists \cup NestedLists

(***************************************************************************)
(* The codec specification: one call of a codec function on one input      *)
(***************************************************************************)
Returned(v) == [threw |-> FALSE, val |-> v]
\* the call ended by throw: kind is the name of the error's class
Threw(kind) == [threw |-> TRUE, val |-> kind]

NoTx ==
  [nonce |-> 0, gasPrice |-> 0, gasLimit |-> 0, to |-> << >>, value |-> 0,
   data |-> << >>, chainId |-> 0]
NoMessage == [kind |-> "string", val |-> << >>]
NoLocal ==
  [rlpArray |-> << >>, encoded |-> << >>, msgHash |-> << >>,
   sig |-> [r |-> 0, s |-> 0, recoveryParam |-> 0], v |-> 0, signedArray |-> << >>]

SignIdle ==
  /\ pc = "idle"
  /\ op = "none"
  /\ tx = NoTx
  /\ privateKey = << >>
  /\ chainIdArg = 0
  /\ local = NoLocal
  /\ result = << >>

\* the RpcClient instances
Clients == {"a", "b"}

Tasks == {1, 2}
NoTask == [pc |-> "idle", op |-> "none", tx |-> NoTx, privateKey |-> << >>,
           local |-> NoLocal, result |-> << >>]
NoSendTx ==
  [nonce |-> 0, gasPrice |-> 0, gasLimit |-> 0, to |-> << >>, value |-> << >>,
   data |-> << >>, chainId |-> 0]
NoCmd ==
  [name |-> "none", variant |-> "none", pc |-> "idle", opts |-> [to |-> << >>, value |-> << >>],
   nonce |-> 0, gasPrice |-> 0, chainId |-> 0, gasLimit |-> 0, tx |-> NoSendTx,
   rawTx |-> NoSendTx, log |-> << >>]
NoFile == [exists |-> FALSE, text |-> << >>]
CmdIdle ==
  /\ tasks = [i \in Tasks |-> NoTask]
  /\ cmd = NoCmd
  /\ walletFile = NoFile

NoWallet ==
  [created |-> FALSE, mnemonic |-> [defined |-> FALSE, words |-> << >>],
   privateKey |-> << >>, address |-> << >>]

ExtIdle ==
  /\ message = NoMessage
  /\ rpcId = [c \in Clients |-> 1]
  /\ calls = << >>
  /\ wallet = NoWallet
  /\ CmdIdle

CodecIdle ==
  /\ fn = "none"
  /\ arg = 0
  /\ ret = Returned(<< >>)

CallIntToBuffer ==
  \E n \in IntInputs :
    /\ fn = "none"
    /\ fn' = "intToBuffer"
    /\ arg' = n
    /\ ret' = Returned(intToBuffer(n))
    /\ UNCHANGED <<signVars, extVars>>

CallHexToBuffer ==
  \E s \in HexInputs :
    /\ fn = "none"
    /\ fn' = "hexToBuffer"
    /\ arg' = s
    /\ ret' = Returned(hexToBuffer(s))
    /\ UNCHANGED <<signVars, extVars>>

CallToBuffer ==
  \E s \in HexInputs :
    /\ fn = "none"
    /\ fn' = "toBuffer"
    /\ arg' = s
    /\ ret' = Returned(toBuffer([kind |-> "string", val |-> s]))
    /\ UNCHANGED <<signVars, extVars>>

CallRlpEncodeBytes ==
  \E b \in ByteStrings :
    /\ fn = "none"
    /\ fn' = "rlpEncode"
    /\ arg' = Bytes(b)
    /\ ret' = Returned(rlpEncode(Bytes(b)))
    /\ UNCHANGED <<signVars, extVars>>

\* a string handed to rlpEncode: "0x" text is hex-decoded, other text is UTF-8
CallRlpEncodeString ==
  \E s \in StringInputs :
    /\ fn = "none"
    /\ fn' = "rlpEncode"
    /\ arg' = Str(s)
    /\ ret' = Returned(rlpEncode(Str(s)))
    /\ UNCHANGED <<signVars, extVars>>

CallRlpEncodeList ==
  \E l \in Lists :
    /\ fn = "none"
    /\ fn' = "rlpEncode"
    /\ arg' = l
    /\ ret' = Returned(rlpEncode(l))
    /\ UNCHANGED <<signVars, extVars>>

InitCodec == CodecIdle /\ SignIdle /\ ExtIdle

NextCodec ==
  \/ CallIntToBuffer
  \/ CallHexToBuffer
  \/ CallToBuffer
  \/ CallRlpEncodeBytes
  \/ CallRlpEncodeString
  \/ CallRlpEncodeList

SpecCodec == InitCodec /\ [][NextCodec]_vars

(***************************************************************************)
(* Transaction signing                                                     *)
(***************************************************************************)
\* the nine buffers of the signing preimage, as Transaction.sign, sign and
\* signTransaction each build them (a non-empty string is truthy)
BuildRlpArray_PrefixKept(t, chainId) ==
  <<intToBuffer(t.nonce),
    intToBuffer(t.gasPrice),
    intToBuffer(t.gasLimit),
    IF t.to # << >> THEN BufferFromHex(t.to) ELSE << >>,
    intToBuffer(t.value),
    IF t.data # << >> THEN BufferFromHex(t.data) ELSE << >>,
    intToBuffer(chainId),
    << >>,
    << >> >>

BuildRlpArray(t, chainId) ==
  <<intToBuffer(t.nonce),
    intToBuffer(t.gasPrice),
    intToBuffer(t.gasLimit),
    IF t.to # << >> THEN hexToBuffer(t.to) ELSE << >>,
    intToBuffer(t.value),
    IF t.data # << >> THEN hexToBuffer(t.data) ELSE << >>,
    intToBuffer(chainId),
    << >>,
    << >> >>

\* v = BigInt(chainId) * 2n + 35n + BigInt(recoveryParam)
ComputeV_Pre155(chainId, recoveryParam) == 27 + recoveryParam

ComputeV(chainId, recoveryParam) == chainId * 2 + 35 + recoveryParam

\* [nonceBuf, gasPriceBuf, gasLimitBuf, toBuf, valueBuf, dataBuf, vBuf, r, s]
BuildSignedArray_IntFields(rlpArray, v, sig) ==
  SubSeq(rlpArray, 1, 6) \o <<intToBuffer(v), intToBuffer(sig.r), intToBuffer(sig.s)>>

BuildSignedArray(rlpArray, v, sig) ==
  SubSeq(rlpArray, 1, 6) \o <<intToBuffer(v), toArrayLike32(sig.r), toArrayLike32(sig.s)>>

\* sig.toCompactHex(): r and s, 32 bytes each, as 128 hex digits
toCompactHex(sig) == BufferToHex(toArrayLike32(sig.r) \o toArrayLike32(sig.s))

\* v.toString(16) left as it is
PadStart2_NoPad(text) == text

\* v.toString(16).padStart(2, '0')
PadStart2(text) == IF Len(text) < 2 THEN <<"0">> \o text ELSE text

\* secp256k1.keyFromPrivate(privateKey.slice(2), 'hex')
keyFromPrivate(key) == HexToInt(Slice(key, 2))

\* privateKey.startsWith('0x') ? privateKey.slice(2) : privateKey, as a scalar
nobleKey(key) == HexToInt(IF StartsWith0x(key) THEN Slice(key, 2) ELSE key)

\* the private keys noble's sign accepts: 64 hex digits of a scalar in 1..CurveN-1
\* (any other makes it throw an Error)
nobleKeyAccepted(key) ==
  \A priv \in {IF StartsWith0x(key) THEN Slice(key, 2) ELSE key} :
    /\ Len(priv) = 64
    /\ \A i \in 1..64 : IsHexChar(priv[i])
    /\ HexToInt(priv) \in 1..(CurveN - 1)

(***************************************************************************)
(* Inputs of the signing specification                                     *)
(***************************************************************************)
MaxNonce == 1
MaxValue == 1
MaxKey == 3
GasPrices == {1000000000}
GasLimits == {21000}
\* 46 * 2 + 35 = 127: v is 0x7f or 0x80; 0 is no chain's id
ChainIds == {0, 1, 46, 84532}
\* a 20-byte address whose first byte is zero
ToAddress ==
  <<"0", "x">> \o BufferToHex(AsArray([i \in 1..20 |-> ((i - 1) * 29) % 256]))
ToInputs == {<< >>, ToAddress}
DataInputs == {<< >>, <<"0", "x">>, <<"0", "x", "a", "9", "0", "5", "9", "c", "b", "b">>}

Txs ==
  [nonce : 0..MaxNonce, gasPrice : GasPrices, gasLimit : GasLimits, to : ToInputs,
   value : 0..MaxValue, data : DataInputs, chainId : ChainIds]

\* a private key as the wallet holds it: "0x" and 64 hex digits
KeyString(d) == <<"0", "x">> \o BufferToHex(toArrayLike32(d))
ValidKeys == {KeyString(d) : d \in 1..MaxKey}
\* strings that are no private key: the scalars 0 and CurveN, a key without its
\* "0x", and a one-byte key without "0x"
InvalidKeys ==
  {KeyString(0), KeyString(CurveN), Slice(KeyString(MaxKey), 2), <<"0", "3">>}
Keys == ValidKeys \cup InvalidKeys

\* the nonces the signer may draw
Nonces == 1..(CurveN - 1)

(***************************************************************************)
(* The signing specification: one call of one signing operation            *)
(***************************************************************************)
NoSig == NoLocal.sig

Locals(rlpArray, encoded, msgHash, sig, v, signedArray) ==
  [rlpArray |-> rlpArray, encoded |-> encoded, msgHash |-> msgHash, sig |-> sig,
   v |-> v, signedArray |-> signedArray]

\* Each local of an operation is bound once, in the order the code assigns it
\* (\E x \in {e} binds x to the value of e).

\* sign(privateKey, tx) (elliptic, with ethers' encodeRlp and keccak256)
sign ==
  /\ pc = "idle"
  /\ \E t \in Txs :
     \E rlpArray \in {BuildRlpArray(t, t.chainId)} :
     \E encoded \in {encodeRlp(rlpArray)} :
     \E msgHash \in {hexToBuffer(ethersKeccak256(encoded))} :
     \E key \in Keys, k \in Nonces :
     \E sig \in {EcdsaSign(keyFromPrivate(key), msgHash, k)} :
     \E v \in {ComputeV(t.chainId, sig.recoveryParam)} :
     \E signedArray \in {BuildSignedArray(rlpArray, v, sig)} :
       /\ sig.s # 0
       /\ pc' = "done"
       /\ op' = "sign"
       /\ tx' = t
       /\ privateKey' = key
       /\ chainIdArg' = t.chainId
       /\ local' = Locals(rlpArray, encoded, msgHash, sig, v, signedArray)
       /\ result' = Returned(encodeRlp(signedArray))
       /\ UNCHANGED <<codecVars, extVars>>

\* Transaction.sign(privateKey) up to its await: the fields are read, the
\* preimage is encoded and the hash is requested
Transaction_sign_start ==
  /\ pc = "idle"
  /\ \E t \in Txs :
     \E rlpArray \in {BuildRlpArray(t, t.chainId)} :
     \E encoded \in {rlpEncode(AsRlpList(rlpArray))} :
     \E key \in Keys :
       /\ pc' = "awaitHash"
       /\ op' = "Transaction.sign"
       /\ tx' = t
       /\ privateKey' = key
       /\ chainIdArg' = t.chainId
       /\ local' = Locals(rlpArray, encoded, << >>, NoSig, 0, << >>)
       /\ UNCHANGED <<result, codecVars, extVars>>

\* Transaction.sign after the await: the hash text becomes the message through
\* Buffer.from(text), which reads it as UTF-8; v is computed from this.chainId
Transaction_sign_resume ==
  /\ pc = "awaitHash"
  /\ op = "Transaction.sign"
  /\ \E msgHash \in {BufferFromUtf8(keccak256(local.encoded))} :
     \E k \in Nonces :
     \E sig \in {EcdsaSign(keyFromPrivate(privateKey), msgHash, k)} :
     \E v \in {ComputeV(tx.chainId, sig.recoveryParam)} :
     \E signedArray \in {BuildSignedArray(local.rlpArray, v, sig)} :
       /\ sig.s # 0
       /\ pc' = "done"
       /\ local' = Locals(local.rlpArray, local.encoded, msgHash, sig, v, signedArray)
       /\ result' = Returned(<<"0", "x">> \o BufferToHex(rlpEncode(AsRlpList(signedArray))))
       /\ UNCHANGED <<op, tx, privateKey, chainIdArg, codecVars, extVars>>

\* signTransaction(tx, privateKey, chainId) of signature.ts (viem's toRlp, js-sha3's
\* keccak256, noble's sign)
signTransaction ==
  /\ pc = "idle"
  /\ \E t \in Txs :
     \E rlpArray \in {BuildRlpArray(t, t.chainId)} :
     \E encoded \in {encodeRlp(rlpArray)} :
     \E msgHashHex \in {jsSha3Keccak256(encoded)} :
     \E key \in Keys, k \in Nonces :
       /\ op' = "signTransaction"
       /\ tx' = t
       /\ privateKey' = key
       /\ chainIdArg' = t.chainId
       /\ UNCHANGED <<codecVars, extVars>>
       /\ \/ /\ ~nobleKeyAccepted(key)
             /\ pc' = "threw"
             /\ local' = Locals(rlpArray, encoded, BufferFromHex(msgHashHex), NoSig, 0, << >>)
             /\ result' = Threw("Error")
          \/ /\ nobleKeyAccepted(key)
             /\ \E sig \in {EcdsaSign(nobleKey(key), BufferFromHex(msgHashHex), k)} :
                \E v \in {ComputeV(t.chainId, sig.recoveryParam)} :
                \E vHex \in {PadStart2(ToString16(v))} :
                  /\ sig.s # 0
                  /\ pc' = "done"
                  /\ local' =
                       Locals(rlpArray, encoded, BufferFromHex(msgHashHex), sig, v, << >>)
                  /\ result' = Returned(<<"0", "x">> \o toCompactHex(sig) \o vHex)

(***************************************************************************)
(* Message signing (signature.ts)                                          *)
(***************************************************************************)
\* "\x19Ethereum Signed Message:\n"
MessagePrefixText ==
  <<"U+0019", "E", "t", "h", "e", "r", "e", "u", "m", " ", "S", "i", "g", "n", "e", "d",
    " ", "M", "e", "s", "s", "a", "g", "e", ":", "\n">>

\* messages: every string of at most MaxMsgLen characters over MsgAlphabet, longer
\* strings, and byte arrays
MaxMsgLen == 2
MsgAlphabet == {"a", "U+00E9", "U+20AC"}
LongMsgLens == {9, 10, 100}
Messages ==
  {Str(s) : s \in UNION {[1..n -> MsgAlphabet] : n \in 0..MaxMsgLen}}
    \cup {Str(AsArray([i \in 1..n |-> IF i = 1 THEN "U+00E9" ELSE "a"])) : n \in LongMsgLens}
    \cup {Bytes(b) : b \in {<< >>, <<0>>, <<255, 0>>, Filled(195, 169, 10)}}

MessageLocals(data, prefix, concatenated, msgHash, sig, v) ==
  [data |-> data, prefix |-> prefix, concatenated |-> concatenated, msgHash |-> msgHash,
   sig |-> sig, v |-> v]

\* signMessage(message, privateKey)
signMessage ==
  /\ pc = "idle"
  /\ \E m \in Messages :
     \E data \in {IF m.kind = "string" THEN TextEncoderEncode(m.val) ELSE m.val} :
     \E prefix \in {TextEncoderEncode(MessagePrefixText \o ToString10(Len(data)))} :
     \E concatenated \in {prefix \o data} :
     \E msgHashHex \in {jsSha3Keccak256OfBytes(concatenated)} :
     \E key \in Keys, k \in Nonces :
       /\ op' = "signMessage"
       /\ message' = m
       /\ privateKey' = key
       /\ UNCHANGED <<tx, chainIdArg, codecVars, rpcVars, walletVars, cmdVars>>
       /\ \/ /\ ~nobleKeyAccepted(key)
             /\ pc' = "threw"
             /\ local' =
                  MessageLocals(data, prefix, concatenated, BufferFromHex(msgHashHex), NoSig, 0)
             /\ result' = Threw("Error")
          \/ /\ nobleKeyAccepted(key)
             /\ \E sig \in {EcdsaSign(nobleKey(key), BufferFromHex(msgHashHex), k)} :
                \E v \in {sig.recoveryParam} :
                \E vHex \in {PadStart2(ToString16(v))} :
                  /\ sig.s # 0
                  /\ pc' = "done"
                  /\ local' =
                       MessageLocals(data, prefix, concatenated, BufferFromHex(msgHashHex),
                                     sig, v)
                  /\ result' = Returned(<<"0", "x">> \o toCompactHex(sig) \o vHex)

Init == CodecIdle /\ SignIdle /\ ExtIdle

Next ==
  \/ sign
  \/ Transaction_sign_start
  \/ Transaction_sign_resume
  \/ signTransaction

Spec == Init /\ [][Next]_vars

(***************************************************************************)
(* RpcClient (rpc_client.ts)                                               *)
(***************************************************************************)
MaxCalls == 3
Methods == {"eth_sendRawTransaction"}

\* what the server's reply holds: a result, an error object, the text "null", or
\* text that is no JSON
Bodies == {"result", "error", "null", "notJson"}

\* this.#rpcId++ leaving the field unchanged
NextRpcId_Unchanged(id) == id

\* this.#rpcId++: the value the field takes
NextRpcId(id) == id + 1

\* request once the reply is ignored for errors
RequestOutcome_ErrorIgnored(body) ==
  CASE body = "notJson" -> Threw("SyntaxError")
    [] body = "null" -> Threw("TypeError")
    [] body = "error" -> Returned("undefined")
    [] body = "result" -> Returned("result")

\* how request ends once the reply's body is read: response.json() rejects with a
\* SyntaxError on text that is no JSON, data.error on null is a TypeError, an
\* error member throws new Error(data.error.message), else data.result is returned
RequestOutcome(body) ==
  CASE body = "notJson" -> Threw("SyntaxError")
    [] body = "null" -> Threw("TypeError")
    [] body = "error" -> Threw("Error")
    [] body = "result" -> Returned("result")

Call(client, method, id, at, body, outcome) ==
  [client |-> client, method |-> method, id |-> id, at |-> at, body |-> body,
   outcome |-> outcome]

NoOutcome == Returned("pending")

\* request(method, params) up to its first await: the payload takes the id, the
\* field is incremented, and fetch is called
request_start ==
  \E c \in Clients, method \in Methods :
    /\ Len(calls) < MaxCalls
    /\ calls' = Append(calls, Call(c, method, rpcId[c], "fetch", "none", NoOutcome))
    /\ rpcId' = [rpcId EXCEPT ![c] = NextRpcId(rpcId[c])]
    /\ UNCHANGED <<codecVars, signVars, message, walletVars, cmdVars>>

\* fetch resolves with a response: request goes on to await response.json()
request_fetch_resolves ==
  \E i \in 1..Len(calls), body \in Bodies :
    /\ calls[i].at = "fetch"
    /\ calls' = [calls EXCEPT ![i].at = "json", ![i].body = body]
    /\ UNCHANGED <<rpcId, codecVars, signVars, message, walletVars, cmdVars>>

\* fetch rejects (no connection): request rejects with fetch's TypeError
request_fetch_rejects ==
  \E i \in 1..Len(calls) :
    /\ calls[i].at = "fetch"
    /\ calls' = [calls EXCEPT ![i].at = "threw", ![i].outcome = Threw("TypeError")]
    /\ UNCHANGED <<rpcId, codecVars, signVars, message, walletVars, cmdVars>>

\* response.json() settles and request finishes
request_json_settles ==
  \E i \in 1..Len(calls) :
    /\ calls[i].at = "json"
    /\ \E outcome \in {RequestOutcome(calls[i].body)} :
         calls' = [calls EXCEPT ![i].at = IF outcome.threw THEN "threw" ELSE "returned",
                                ![i].outcome = outcome]
    /\ UNCHANGED <<rpcId, codecVars, signVars, message, walletVars, cmdVars>>

NextRpc ==
  \/ request_start
  \/ request_fetch_resolves
  \/ request_fetch_rejects
  \/ request_json_settles

(***************************************************************************)
(* Wallet.create (wallet.ts)                                               *)
(***************************************************************************)
\* the entropy generateMnemonic may draw
MaxEntropy == 127

\* the first words of the English word list
Wordlist == <<"abandon", "ability", "able", "about">>

RECURSIVE Pow4(_)
Pow4(e) == IF e = 0 THEN 1 ELSE 4 * Pow4(e - 1)

\* generateMnemonic(english): 12 words, each picked by a slice of the entropy
generateMnemonic(entropy) ==
  AsArray([i \in 1..12 |->
             IF i <= 6 THEN Wordlist[((entropy \div Pow4(i - 1)) % 4) + 1] ELSE Wordlist[1]])

\* mnemonicToSeed, HDKey.fromMasterSeed and derive("m/44'/60'/0'/0/0"): a scalar
\* in 1..CurveN-1 that the mnemonic determines
DerivePrivateKey(entropy) == 1 + (((entropy * 7919 + 13) % 32749) % (CurveN - 1))

\* String.prototype.toUpperCase on one hex digit
ToUpperCase(c) == IF HexVal(c) >= 10 THEN HexUpper[HexVal(c) - 9] ELSE c

\* viem's checksumAddress: a digit is upper-cased when the matching nibble of the
\* hash of the lower-case digits is 8 or more
checksumAddress(address) ==
  LET body == Slice(address, 2)
      hash == Keccak256(BufferFromUtf8(body))
  IN  <<"0", "x">>
        \o AsArray([i \in 1..40 |->
                      IF (IF i % 2 = 1 THEN hash[(i + 1) \div 2] \div 16
                          ELSE hash[i \div 2] % 16) >= 8
                      THEN ToUpperCase(body[i]) ELSE body[i]])

\* privateKeyToAccount(privateKey).address
privateKeyToAddress(key) ==
  checksumAddress(PublicKeyToAddress(PublicKey(HexToInt(Slice(key, 2)))))

\* Wallet.create() of the class without a mnemonic: generatePrivateKey draws the key
Wallet_create ==
  \E d \in 1..(CurveN - 1) :
    /\ ~wallet.created
    /\ wallet' =
         [created |-> TRUE, mnemonic |-> [defined |-> FALSE, words |-> << >>],
          privateKey |-> KeyString(d), address |-> privateKeyToAddress(KeyString(d))]
    /\ UNCHANGED <<codecVars, signVars, message, rpcVars, cmdVars>>

\* Wallet.create() of the class with a mnemonic: the key is derived from it
Wallet_create_hd ==
  \E entropy \in 0..MaxEntropy :
    \E privateKey_ \in {KeyString(DerivePrivateKey(entropy))} :
      /\ ~wallet.created
      /\ wallet' =
           [created |-> TRUE,
            mnemonic |-> [defined |-> TRUE, words |-> generateMnemonic(entropy)],
            privateKey |-> privateKey_, address |-> privateKeyToAddress(privateKey_)]
      /\ UNCHANGED <<codecVars, signVars, message, rpcVars, cmdVars>>

NextWallet == Wallet_create \/ Wallet_create_hd

\* message signing on its own
NextMessage == signMessage

SpecMessage == Init /\ [][NextMessage]_vars

\* the RPC client on its own
SpecRpc == Init /\ [][NextRpc]_vars

\* wallet creation on its own
SpecWallet == Init /\ [][NextWallet]_vars

(***************************************************************************)
(* Reference definitions the claims are stated with                        *)
(***************************************************************************)
\* the shortest big-endian byte string of n: empty for 0
RECURSIVE MinBytes(_)
MinBytes(n) == IF n = 0 THEN << >> ELSE MinBytes(n \div 256) \o <<n % 256>>

\* a byte string read as a big-endian integer
RECURSIVE BytesToIntUpTo(_, _)
BytesToIntUpTo(b, n) == IF n = 0 THEN 0 ELSE 256 * BytesToIntUpTo(b, n - 1) + b[n]

BytesToInt(b) ==
  LET nz == {i \in 1..Len(b) : b[i] # 0}
      first == IF nz = {} THEN Len(b) + 1 ELSE CHOOSE i \in nz : \A j \in nz : i <= j
      rest == SubSeq(b, first, Len(b))
  IN  BytesToIntUpTo(rest, Len(rest))

IsBytes(b) == \A i \in 1..Len(b) : b[i] \in Byte

\* the characters of a hex string once an optional "0x" is removed
HexBody(s) == IF StartsWith0x(s) THEN Slice(s, 2) ELSE s

MalformedHex(s) ==
  \/ Len(HexBody(s)) % 2 = 1
  \/ \E i \in 1..Len(HexBody(s)) : ~IsHexChar(HexBody(s)[i])

\* the bytes a well-formed hex text denotes
HexBytes(text) ==
  AsArray([i \in 1..(Len(HexBody(text)) \div 2) |->
             16 * HexVal(HexBody(text)[2 * i - 1]) + HexVal(HexBody(text)[2 * i])])

\* the byte strings whose RLP encodings, laid end to end, are b from position pos
\* on (an item that is itself a list ends the decoding)
RECURSIVE RlpDecodeStrings(_, _)
RlpDecodeStrings(b, pos) ==
  IF pos > Len(b) \/ b[pos] > 191 THEN << >>
  ELSE IF b[pos] < 128 THEN <<<<b[pos]>>>> \o RlpDecodeStrings(b, pos + 1)
  ELSE IF b[pos] <= 183
  THEN <<SubSeq(b, pos + 1, pos + b[pos] - 128)>>
         \o RlpDecodeStrings(b, pos + 1 + b[pos] - 128)
  ELSE LET ll == b[pos] - 183
           n == BytesToInt(SubSeq(b, pos + 1, pos + ll))
       IN  <<SubSeq(b, pos + 1 + ll, pos + ll + n)>>
             \o RlpDecodeStrings(b, pos + 1 + ll + n)

\* b is the RLP encoding of one list: a list header that accounts for every byte
IsRlpList(b) ==
  /\ b # << >>
  /\ b[1] >= 192
  /\ IF b[1] <= 247 THEN Len(b) = 1 + (b[1] - 192)
     ELSE /\ Len(b) > b[1] - 247
          /\ Len(b) = 1 + (b[1] - 247) + BytesToInt(SubSeq(b, 2, 1 + (b[1] - 247)))

\* the items of the RLP list b, when they are byte strings
RlpDecodeList(b) ==
  IF b[1] <= 247 THEN RlpDecodeStrings(b, 2) ELSE RlpDecodeStrings(b, 2 + (b[1] - 247))

\* the chain id the operation signs for
ChainIdOf == IF op = "signTransaction" THEN chainIdArg ELSE tx.chainId

\* the operation returns an RLP-encoded signed transaction
RlpOps == {"sign", "Transaction.sign"}

\* the returned text, decoded as the test does: hex to bytes, bytes to items
DecodedResult == RlpDecodeList(HexBytes(result.val))

(***************************************************************************)
(* Claims on transaction signing (Spec)                                    *)
(***************************************************************************)
\* C1 as stated: the raw transaction of sign / Transaction.sign decodes to 9 items
\* [nonce, gasPrice, gasLimit, to, value, data, v, r, s], and recovering the public
\* key from keccak256(rlp([nonce, gasPrice, gasLimit, to, value, data, chainId,
\* empty, empty])), r, s and recid = v - (2 * chainId + 35) gives the address
\* derived from the private key.
C1_RecoversSignerAddress ==
  pc = "done" /\ op \in RlpOps =>
    \A items \in {DecodedResult} :
      /\ Len(items) = 9
      /\ \A recid \in {BytesToInt(items[7]) - (2 * tx.chainId + 35)} :
         \A preimage \in {SubSeq(items, 1, 6) \o <<MinBytes(tx.chainId), << >>, << >> >>} :
         \A hash \in {Keccak256(rlpEncode(AsRlpList(preimage)))} :
           /\ recid \in {0, 1}
           /\ PublicKeyToAddress(
                RecoverPubKey(hash, BytesToInt(items[8]), BytesToInt(items[9]), recid))
                = PublicKeyToAddress(PublicKey(HexToInt(Slice(privateKey, 2))))

\* the statement of C1 for sign (signature.ts) alone, which hashes the encoded bytes
SignRecoversSignerAddress == op = "sign" => C1_RecoversSignerAddress

\* the v an operation emits: the seventh item of the signed list, or the hex digits
\* that follow the 128 digits of r and s
EmittedV ==
  IF op = "signTransaction" THEN HexToInt(Slice(result.val, 130))
  ELSE BytesToInt(local.signedArray[7])

\* C2: the v emitted by every signing operation is chainId * 2 + 35 + recid, with
\* recid the recovery id the signer returned, 0 or 1.
C2_VIsEip155 ==
  pc = "done" =>
    /\ local.sig.recoveryParam \in {0, 1}
    /\ EmittedV = ChainIdOf * 2 + 35 + local.sig.recoveryParam

C2_Witness ==
  /\ pc = "done"
  /\ op = "signTransaction"
  /\ ChainIdOf = 84532
  /\ local.sig.recoveryParam = 1
  /\ EmittedV = 169100

\* C3: the v item of the signed transaction, after intToBuffer and RLP encoding and
\* decoding, read as a big-endian integer (through its hex text, "0" when empty),
\* minus chainId * 2 + 35, is the recid used at signing time.
C3_VDecodesToRecid ==
  pc = "done" /\ op \in RlpOps /\ tx.chainId > 0 =>
    \A vBytes \in {DecodedResult[7]} :
    \A vHex \in {IF vBytes = << >> THEN <<"0">> ELSE BufferToHex(vBytes)} :
      /\ local.sig.recoveryParam \in {0, 1}
      /\ HexToInt(vHex) - (tx.chainId * 2 + 35) = local.sig.recoveryParam

\* chain id 46 with recid 1: v = 0x80, the first value RLP gives a length prefix;
\* chain id 84532: v has three bytes
C3_Witness ==
  /\ pc = "done"
  /\ op \in RlpOps
  /\ \/ tx.chainId = 46 /\ local.sig.recoveryParam = 1 /\ DecodedResult[7] = <<128>>
     \/ tx.chainId = 84532 /\ Len(DecodedResult[7]) = 3

\* C4: the list that is RLP-encoded for signing has exactly these 9 items, in
\* order: the minimal bytes of nonce, gasPrice, gasLimit, the address bytes of to
\* (empty when to is empty), the minimal bytes of value, the data bytes (empty when
\* data is empty or "0x"), the minimal bytes of chainId, empty, empty.
C4_PreimageList ==
  pc \in {"awaitHash", "done"} =>
    /\ Len(local.rlpArray) = 9
    /\ local.rlpArray =
         <<MinBytes(tx.nonce), MinBytes(tx.gasPrice), MinBytes(tx.gasLimit),
           IF tx.to = << >> THEN << >> ELSE HexBytes(tx.to),
           MinBytes(tx.value),
           IF tx.data = << >> \/ tx.data = <<"0", "x">> THEN << >> ELSE HexBytes(tx.data),
           MinBytes(ChainIdOf), << >>, << >> >>
    /\ local.encoded \in
         {rlpEncode(AsRlpList(local.rlpArray)),
          <<"0", "x">> \o BufferToHex(rlpEncode(AsRlpList(local.rlpArray)))}

C4_Witness ==
  /\ pc = "done"
  /\ tx.nonce = 0
  /\ tx.to = ToAddress
  /\ tx.data = <<"0", "x">>
  /\ tx.chainId = 84532
  /\ local.rlpArray[1] = << >>
  /\ Len(local.rlpArray[4]) = 20
  /\ local.rlpArray[4][1] = 0
  /\ local.rlpArray[6] = << >>
  /\ local.rlpArray[7] = <<1, 74, 52>>

\* C5 as stated: every signing operation returns "0x" and the hex of the RLP
\* encoding of a 9-item list [nonce, gasPrice, gasLimit, to, value, data, v, r, s]
\* whose first six items are those of the signed preimage.
C5_ReturnsSignedRlpList ==
  pc = "done" =>
    /\ StartsWith0x(result.val)
    /\ IsRlpList(HexBytes(result.val))
    /\ \A items \in {DecodedResult} :
         /\ Len(items) = 9
         /\ SubSeq(items, 1, 6) = SubSeq(local.rlpArray, 1, 6)
         /\ result.val = <<"0", "x">> \o BufferToHex(rlpEncode(AsRlpList(items)))

\* the statement of C5 for the two operations that encode the signed list
RlpOpsReturnSignedRlpList == op \in RlpOps => C5_ReturnsSignedRlpList

\* C6: in the signed transaction r and s are each exactly 32 bytes, big-endian and
\* left-padded with zero bytes, whatever the length of their minimal encoding.
C6_RAndSAre32Bytes ==
  pc = "done" /\ op \in RlpOps =>
    \A items \in {DecodedResult} :
      /\ Len(items) = 9
      /\ Len(items[8]) = 32
      /\ Len(items[9]) = 32
      /\ BytesToInt(items[8]) = local.sig.r
      /\ BytesToInt(items[9]) = local.sig.s

\* r fits one byte and the item still has 32
C6_Witness ==
  /\ pc = "done"
  /\ op = "Transaction.sign"
  /\ Len(MinBytes(local.sig.r)) = 1
  /\ Len(DecodedResult[8]) = 32
  /\ DecodedResult[8][1] = 0
  /\ DecodedResult[8][32] = local.sig.r

(***************************************************************************)
(* Claims on the codec and the RLP encoder (SpecCodec)                     *)
(***************************************************************************)
\* C7: intToBuffer(n) is the minimal big-endian encoding of n: empty for n = 0,
\* a non-zero first byte for n > 0, and read back as a big-endian integer it is n.
C7_IntToBufferCanonical ==
  fn = "intToBuffer" =>
    /\ ~ret.threw
    /\ IsBytes(ret.val)
    /\ (arg = 0 => ret.val = << >>)
    /\ (arg > 0 => ret.val # << >> /\ ret.val[1] # 0)
    /\ BytesToInt(ret.val) = arg

\* 84532 = 0x14a34 has an odd number of hex digits
C7_Witness == fn = "intToBuffer" /\ arg = 84532 /\ ret.val = <<1, 74, 52>>

\* C8 as stated: hexToBuffer, and toBuffer on a "0x" string, fail on an odd number
\* of digits or a non-hex character and return no bytes.
C8_MalformedHexRejected ==
  /\ (fn = "hexToBuffer" /\ MalformedHex(arg) => ret.threw)
  /\ (fn = "toBuffer" /\ StartsWith0x(arg) /\ MalformedHex(arg) => ret.threw)

\* C9: rlpEncode of a byte string b is b itself when len(b) = 1 and b[0] < 0x80,
\* else [0x80 + len(b)] ++ b when len(b) < 56, else [0xb7 + len(L)] ++ L ++ b with
\* L the minimal big-endian encoding of len(b).
C9_RlpEncodeByteString ==
  fn = "rlpEncode" /\ arg.kind = "bytes" =>
    LET b == arg.val
        L == MinBytes(Len(b))
    IN  /\ ~ret.threw
        /\ ret.val = IF Len(b) = 1 /\ b[1] < 128 THEN b
                     ELSE IF Len(b) < 56 THEN <<128 + Len(b)>> \o b
                     ELSE <<183 + Len(L)>> \o L \o b
        /\ (Len(b) >= 56 => L[1] # 0)

\* the boundaries: 0x80 alone takes a prefix, 56 bytes take the long form
C9_Witness ==
  /\ fn = "rlpEncode"
  /\ arg.kind = "bytes"
  /\ \/ arg.val = <<128>> /\ ret.val = <<129, 128>>
     \/ Len(arg.val) = 56 /\ ret.val[1] = 184 /\ ret.val[2] = 56

\* the children's encodings, concatenated in order
Payload(l) == Concat(AsArray([i \in 1..Len(l.val) |-> rlpEncode(l.val[i])]))

\* C10: rlpEncode of a list is [0xc0 + len(payload)] ++ payload when
\* len(payload) < 56 and [0xf7 + len(LB)] ++ LB ++ payload otherwise, payload being
\* the children's encodings in order and LB the minimal encoding of len(payload);
\* the threshold is on the payload's length in bytes.
C10_RlpEncodeList ==
  fn = "rlpEncode" /\ arg.kind = "list" =>
    LET payload == Payload(arg)
        LB == MinBytes(Len(payload))
    IN  /\ ~ret.threw
        /\ ret.val = IF Len(payload) < 56 THEN <<192 + Len(payload)>> \o payload
                     ELSE <<247 + Len(LB)>> \o LB \o payload

\* two children, 56 bytes of payload: the long form
C10_Witness ==
  /\ fn = "rlpEncode"
  /\ arg.kind = "list"
  /\ Len(arg.val) = 2
  /\ Len(Payload(arg)) = 56
  /\ ret.val[1] = 248
  /\ ret.val[2] = 56

\* the items whose RLP encodings, laid end to end, are b[lo..hi]: byte strings and
\* lists, nested as the prefixes say
RECURSIVE RlpDecodeItems(_, _, _)
RlpDecodeItems(b, lo, hi) ==
  IF lo > hi THEN << >>
  ELSE IF b[lo] < 128 THEN <<Bytes(<<b[lo]>>)>> \o RlpDecodeItems(b, lo + 1, hi)
  ELSE IF b[lo] <= 183
  THEN <<Bytes(SubSeq(b, lo + 1, lo + b[lo] - 128))>>
         \o RlpDecodeItems(b, lo + 1 + b[lo] - 128, hi)
  ELSE IF b[lo] <= 191
  THEN LET ll == b[lo] - 183
           n == BytesToInt(SubSeq(b, lo + 1, lo + ll))
       IN  <<Bytes(SubSeq(b, lo + 1 + ll, lo + ll + n))>>
             \o RlpDecodeItems(b, lo + 1 + ll + n, hi)
  ELSE IF b[lo] <= 247
  THEN <<List(RlpDecodeItems(b, lo + 1, lo + b[lo] - 192))>>
         \o RlpDecodeItems(b, lo + 1 + b[lo] - 192, hi)
  ELSE LET ll == b[lo] - 247
           n == BytesToInt(SubSeq(b, lo + 1, lo + ll))
       IN  <<List(RlpDecodeItems(b, lo + 1 + ll, lo + ll + n))>>
             \o RlpDecodeItems(b, lo + 1 + ll + n, hi)

\* the reference decoder: the one item b encodes
RlpDecode(b) == RlpDecodeItems(b, 1, Len(b))

\* C11: the reference RLP decoder applied to rlpEncode(x) returns x, for every
\* nested structure x of byte strings and lists; so rlpEncode is injective on them.
C11_RlpRoundTrip ==
  fn = "rlpEncode" /\ arg.kind \in {"bytes", "list"} =>
    /\ ~ret.threw
    /\ RlpDecode(ret.val) = <<arg>>

\* a list of two lists, one of them in the long form around a long byte string
C11_Witness ==
  /\ fn = "rlpEncode"
  /\ arg = List(<<List(<<Bytes(Filled(1, 2, 56))>>), List(<<List(<< >>)>>)>>)
  /\ ret.val[1] = 248
  /\ RlpDecode(ret.val) = <<arg>>

\* C12: rlpEncode("dog") is 83 64 6f 67, rlpEncode([]) is c0 and rlpEncode("") is 80.
C12_CanonicalVectors ==
  fn = "rlpEncode" =>
    /\ (arg = Str(<<"d", "o", "g">>) => ret.val = <<131, 100, 111, 103>>)
    /\ (arg = List(<< >>) => ret.val = <<192>>)
    /\ (arg = Str(<< >>) => ret.val = <<128>>)

C12_Witness ==
  /\ fn = "rlpEncode"
  /\ arg = Str(<<"d", "o", "g">>)
  /\ ret = Returned(<<131, 100, 111, 103>>)

(***************************************************************************)
(* Claims on message signing (SpecMessage)                                 *)
(***************************************************************************)
\* the UTF-8 bytes of the characters of the messages, as the standard lists them
RefUtf8 ==
  [c \in {"a"} |-> <<97>>] @@ [c \in {"U+00E9"} |-> <<195, 169>>]
    @@ [c \in {"U+20AC"} |-> <<226, 130, 172>>]

RECURSIVE RefStringBytes(_, _, _)
RefStringBytes(s, lo, hi) ==
  IF lo > hi THEN << >>
  ELSE IF lo = hi THEN RefUtf8[s[lo]]
  ELSE RefStringBytes(s, lo, (lo + hi) \div 2) \o RefStringBytes(s, ((lo + hi) \div 2) + 1, hi)

\* the bytes of a message
MessageBytes(m) ==
  IF m.kind = "string" THEN RefStringBytes(m.val, 1, Len(m.val)) ELSE m.val

\* the ASCII decimal digits of n
RECURSIVE DecimalAscii(_)
DecimalAscii(n) ==
  IF n < 10 THEN <<48 + n>> ELSE DecimalAscii(n \div 10) \o <<48 + (n % 10)>>

\* 0x19, "Ethereum Signed Message:", newline
Eip191Prefix ==
  <<25, 69, 116, 104, 101, 114, 101, 117, 109, 32, 83, 105, 103, 110, 101, 100, 32,
    77, 101, 115, 115, 97, 103, 101, 58, 10>>

\* C15: signMessage hashes exactly 0x19, "Ethereum Signed Message:", newline, the
\* decimal ASCII digits of the message's length in bytes (its UTF-8 byte count for
\* a string), and the message bytes, with nothing between the length and the
\* message.
C15_MessagePreimage ==
  op = "signMessage" /\ pc \in {"done", "threw"} =>
    \A bytes \in {MessageBytes(message)} :
      /\ local.concatenated = Eip191Prefix \o DecimalAscii(Len(bytes)) \o bytes
      /\ local.msgHash = Keccak256(local.concatenated)

\* two characters, four bytes; and a length of two digits
C15_Witness ==
  /\ op = "signMessage"
  /\ pc = "done"
  /\ \/ /\ message = Str(<<"U+20AC", "a">>)
        /\ SubSeq(local.concatenated, 27, 31) = <<52, 226, 130, 172, 97>>
     \/ /\ message.kind = "string"
        /\ Len(message.val) = 9
        /\ SubSeq(local.concatenated, 27, 30) = <<49, 48, 195, 169>>

\* C16: signMessage returns "0x" and exactly 130 hex digits: 32 bytes of r, 32
\* bytes of s, and one last byte that is the recovery id itself, 0 or 1.
C16_MessageSignatureLayout ==
  op = "signMessage" /\ pc = "done" =>
    /\ ~result.threw
    /\ StartsWith0x(result.val)
    /\ Len(result.val) = 132
    /\ \A i \in 3..132 : IsHexChar(result.val[i])
    /\ \A bytes \in {HexBytes(result.val)} :
         /\ Len(bytes) = 65
         /\ BytesToInt(SubSeq(bytes, 1, 32)) = local.sig.r
         /\ BytesToInt(SubSeq(bytes, 33, 64)) = local.sig.s
         /\ bytes[65] = local.sig.recoveryParam
         /\ bytes[65] \in {0, 1}

C16_Witness ==
  /\ op = "signMessage"
  /\ pc = "done"
  /\ local.sig.recoveryParam = 1
  /\ Len(result.val) = 132
  /\ SubSeq(result.val, 131, 132) = <<"0", "1">>

(***************************************************************************)
(* Claims on rejected inputs (Spec)                                        *)
(***************************************************************************)
\* a private key as the specification accepts it: "0x" and 64 hex digits of a
\* scalar in 1..CurveN-1
IsValidPrivateKey(key) ==
  /\ StartsWith0x(key)
  /\ Len(key) = 66
  /\ \A i \in 3..66 : IsHexChar(key[i])
  /\ HexToInt(Slice(key, 2)) \in 1..(CurveN - 1)

\* C13 as stated: transaction signing with chainId <= 0 fails with InvalidChainId
\* and returns no signed transaction.
C13_InvalidChainIdRejected ==
  pc \in {"done", "threw"} /\ ChainIdOf <= 0 =>
    /\ pc = "threw"
    /\ result = Threw("InvalidChainId")

\* C14 as stated: transaction signing with a private key that is no scalar in
\* 1..n-1 (zero, n or more, wrong length, no "0x") fails with InvalidPrivateKey and
\* returns no signature.
C14_InvalidPrivateKeyRejected ==
  pc \in {"done", "threw"} /\ ~IsValidPrivateKey(privateKey) =>
    /\ pc = "threw"
    /\ result = Threw("InvalidPrivateKey")

\* the part of C14 that signTransaction meets: a key that is no scalar in 1..n-1,
\* or has the wrong length, yields no signature
SignTransactionRejectsBadScalar ==
  op = "signTransaction" /\ pc = "done" => nobleKeyAccepted(privateKey)

(***************************************************************************)
(* Claims on the returned text                                             *)
(***************************************************************************)
\* C17 as stated: the hex string a signing operation returns starts with "0x" and
\* has an even number of hex digits, for every chainId > 0.
C17_ReturnedHexIsEvenLength ==
  pc = "done" /\ (op = "signMessage" \/ ChainIdOf > 0) =>
    /\ StartsWith0x(result.val)
    /\ \A i \in 3..Len(result.val) : IsHexChar(result.val[i])
    /\ Len(result.val) % 2 = 0

\* the statement of C17 for Transaction.sign and sign
RlpOpsReturnEvenLengthHex == op \in RlpOps => C17_ReturnedHexIsEvenLength

(***************************************************************************)
(* Claims on RpcClient (SpecRpc)                                           *)
(***************************************************************************)
\* the positions in calls of the calls made on client c, in order
CallsOf(c) == {i \in 1..Len(calls) : calls[i].client = c}

\* the number of calls of client c made up to and including call i
RankIn(c, i) == Cardinality({j \in CallsOf(c) : j <= i})

\* C18: the k-th call of request on an RpcClient carries id k, no two requests of
\* one instance carry the same id, whether or not earlier ones are still awaited,
\* and the counter of an instance counts that instance's calls only.
C18_RpcIdsCountCalls ==
  \A c \in Clients :
    /\ \A i \in CallsOf(c) : calls[i].id = RankIn(c, i)
    /\ \A i, j \in CallsOf(c) : i # j => calls[i].id # calls[j].id
    /\ rpcId[c] = Cardinality(CallsOf(c)) + 1

\* two requests of one client in flight together, and one of the other client
C18_Witness ==
  /\ Len(calls) = 3
  /\ calls[1].client = "a" /\ calls[1].at = "fetch" /\ calls[1].id = 1
  /\ calls[2].client = "b" /\ calls[2].at = "json" /\ calls[2].id = 1
  /\ calls[3].client = "a" /\ calls[3].at = "fetch" /\ calls[3].id = 2

\* the errors request throws for a failed connection and for unreadable JSON
TransportErrorKinds == {"TypeError", "SyntaxError"}

\* C19: when the reply reports a server error, request fails with an error whose
\* kind is that of neither a network failure nor a JSON-parsing failure, and
\* returns no result for that request.
C19_ServerErrorIsDistinct ==
  \A i \in 1..Len(calls) :
    calls[i].body = "error" /\ calls[i].at \in {"returned", "threw"} =>
      /\ calls[i].at = "threw"
      /\ calls[i].outcome.threw
      /\ calls[i].outcome.val \notin TransportErrorKinds
      /\ \A j \in 1..Len(calls) :
           calls[j].body # "error" /\ calls[j].at = "threw" =>
             calls[j].outcome.val # calls[i].outcome.val

\* a server error, a failed connection and unreadable JSON side by side
C19_Witness ==
  /\ Len(calls) = 3
  /\ \E i, j, k \in 1..3 :
       /\ calls[i].body = "error" /\ calls[i].outcome = Threw("Error")
       /\ calls[j].body = "none" /\ calls[j].outcome = Threw("TypeError")
       /\ calls[k].body = "notJson" /\ calls[k].outcome = Threw("SyntaxError")

(***************************************************************************)
(* Claims on Wallet.create (SpecWallet)                                    *)
(***************************************************************************)
\* C20 as stated: a created wallet has a mnemonic of at least 12 words, a private
\* key that is "0x" and 64 hex digits, and an address that is "0x" and 40
\* lower-case hex digits.
C20_CreatedWalletWellFormed ==
  wallet.created =>
    /\ wallet.mnemonic.defined
    /\ Len(wallet.mnemonic.words) >= 12
    /\ StartsWith0x(wallet.privateKey)
    /\ Len(wallet.privateKey) = 66
    /\ \A i \in 3..66 : IsHexChar(wallet.privateKey[i])
    /\ StartsWith0x(wallet.address)
    /\ Len(wallet.address) = 42
    /\ \A i \in 3..42 : \E d \in 1..16 : wallet.address[i] = HexDigits[d]

\* the parts of C20 that hold: the private key's form, and the address's form up
\* to the case of its digits
CreatedWalletKeyAndAddressLength ==
  wallet.created =>
    /\ StartsWith0x(wallet.privateKey)
    /\ Len(wallet.privateKey) = 66
    /\ \A i \in 3..66 : IsHexChar(wallet.privateKey[i])
    /\ StartsWith0x(wallet.address)
    /\ Len(wallet.address) = 42
    /\ \A i \in 3..42 : IsHexChar(wallet.address[i])

\* the class with a mnemonic gives 12 words and still an address with upper-case
\* digits
CreatedHdWalletHasMixedCaseAddress ==
  ~(/\ wallet.created
    /\ wallet.mnemonic.defined
    /\ Len(wallet.mnemonic.words) = 12
    /\ \E i \in 3..42 : wallet.address[i] \in {HexUpper[d] : d \in 1..6})

(***************************************************************************)
(* Claims on the signed message and on interleavings                       *)
(***************************************************************************)
\* C21 as stated: the message handed to the signer in transaction signing is the
\* 32 raw bytes of the Keccak-256 digest of the RLP-encoded preimage bytes.
C21_SignerGetsPreimageDigest ==
  pc = "done" =>
    /\ Len(local.msgHash) = 32
    /\ local.msgHash = Keccak256(rlpEncode(AsRlpList(local.rlpArray)))

\* the statement of C21 for sign alone
SignGetsPreimageDigest == op = "sign" => C21_SignerGetsPreimageDigest

(***************************************************************************)
(* Another task writing the transaction during Transaction.sign            *)
(***************************************************************************)
\* The fields of Transaction are public and writable (nonce .. chainId): code
\* that runs while sign is suspended at its await can assign any of them.
Transaction_assign ==
  /\ pc = "awaitHash"
  /\ \/ \E c \in ChainIds : tx' = [tx EXCEPT !.chainId = c]
     \/ \E n \in 0..MaxNonce : tx' = [tx EXCEPT !.nonce = n]
  /\ tx' # tx
  /\ UNCHANGED <<pc, op, privateKey, chainIdArg, local, result, codecVars, extVars>>

NextInterleave == Transaction_sign_start \/ Transaction_assign \/ Transaction_sign_resume
SpecInterleave == Init /\ [][NextInterleave]_vars

\* C22 as stated: whatever another task assigns while Transaction.sign is in
\* progress, the chainId bound into v is the chainId encoded in the hashed preimage.
C22_VBindsEncodedChainId ==
  (op = "Transaction.sign" /\ pc = "done") =>
    local.v = ComputeV(BytesToInt(local.rlpArray[7]), local.sig.recoveryParam)

\* the six fields that precede v in the signed list are the buffers that were hashed
SignedFieldsAreHashedFields ==
  (op = "Transaction.sign" /\ pc = "done") =>
    \A i \in 1..6 : local.signedArray[i] = local.rlpArray[i]

(***************************************************************************)
(* Two signing calls in flight (Transaction.sign of tx.ts, sign)           *)
(***************************************************************************)
\* keyPair.sign draws its nonce from an HMAC-DRBG seeded with the key and the
\* message and retries until the signature is usable: the nonce is a function of
\* the two.  The stand-in starts from a value mixed from both.
DrbgNonce(d, msg) ==
  LET start == (BytesModN(TruncateToN(msg)) + 3 * d) % (CurveN - 1)
      Cand(j) == ((start + j) % (CurveN - 1)) + 1
      Ok(j) == EcdsaSign(d, msg, Cand(j)).s # 0
  IN  Cand(CHOOSE j \in 0..(CurveN - 2) : Ok(j) /\ \A h \in 0..(j - 1) : ~Ok(h))

\* the transactions and keys of the two tasks
TaskTxs ==
  [nonce : 0..MaxNonce, gasPrice : GasPrices, gasLimit : GasLimits, to : {ToAddress},
   value : {0}, data : {<< >>}, chainId : {1, 46}]
TaskKeys == ValidKeys

\* the locals and the return value of a call belong to that call alone
UpdateTask_Shared(ts, i, rec) ==
  [j \in DOMAIN ts |-> IF j = i THEN rec ELSE [ts[j] EXCEPT !.local = rec.local]]
UpdateTask(ts, i, rec) == [ts EXCEPT ![i] = rec]

\* sign(privateKey, tx), called by an idle task: it runs to completion
Task_sign ==
  \E i \in Tasks :
    /\ tasks[i].pc = "idle"
    /\ \E t \in TaskTxs, key \in TaskKeys :
       \E rlpArray \in {BuildRlpArray(t, t.chainId)} :
       \E encoded \in {encodeRlp(rlpArray)} :
       \E msgHash \in {hexToBuffer(ethersKeccak256(encoded))} :
       \E sig \in {EcdsaSign(keyFromPrivate(key), msgHash,
                              DrbgNonce(keyFromPrivate(key), msgHash))} :
       \E v \in {ComputeV(t.chainId, sig.recoveryParam)} :
       \E signedArray \in {BuildSignedArray(rlpArray, v, sig)} :
         tasks' = UpdateTask(tasks, i,
                    [pc |-> "done", op |-> "sign", tx |-> t, privateKey |-> key,
                     local |-> Locals(rlpArray, encoded, msgHash, sig, v, signedArray),
                     result |-> encodeRlp(signedArray)])
    /\ UNCHANGED <<codecVars, signVars, message, rpcVars, walletVars, cmd, walletFile>>

\* Transaction.sign(privateKey), called by an idle task, up to its await
Task_Transaction_sign_start ==
  \E i \in Tasks :
    /\ tasks[i].pc = "idle"
    /\ \E t \in TaskTxs, key \in TaskKeys :
       \E rlpArray \in {BuildRlpArray(t, t.chainId)} :
       \E encoded \in {rlpEncode(AsRlpList(rlpArray))} :
         tasks' = UpdateTask(tasks, i,
                    [pc |-> "awaitHash", op |-> "Transaction.sign", tx |-> t,
                     privateKey |-> key,
                     local |-> Locals(rlpArray, encoded, << >>, NoSig, 0, << >>),
                     result |-> << >>])
    /\ UNCHANGED <<codecVars, signVars, message, rpcVars, walletVars, cmd, walletFile>>

\* Transaction.sign of a suspended task, from its await to its return
Task_Transaction_sign_resume ==
  \E i \in Tasks :
    /\ tasks[i].pc = "awaitHash"
    /\ \E me \in {tasks[i]} :
       \E msgHash \in {BufferFromUtf8(keccak256(me.local.encoded))} :
       \E sig \in {EcdsaSign(keyFromPrivate(me.privateKey), msgHash,
                              DrbgNonce(keyFromPrivate(me.privateKey), msgHash))} :
       \E v \in {ComputeV(me.tx.chainId, sig.recoveryParam)} :
       \E signedArray \in {BuildSignedArray(me.local.rlpArray, v, sig)} :
         tasks' = UpdateTask(tasks, i,
                    [me EXCEPT
                       !.pc = "done",
                       !.local = Locals(me.local.rlpArray, me.local.encoded, msgHash, sig,
                                        v, signedArray),
                       !.result =
                         <<"0", "x">> \o BufferToHex(rlpEncode(AsRlpList(signedArray)))])
    /\ UNCHANGED <<codecVars, signVars, message, rpcVars, walletVars, cmd, walletFile>>

NextTasks == Task_sign \/ Task_Transaction_sign_start \/ Task_Transaction_sign_resume
SpecTasks == Init /\ [][NextTasks]_vars

\* what a call returns when no other call is in flight
SignedWith(t, rlpArray, msgHash, key) ==
  LET sig == EcdsaSign(keyFromPrivate(key), msgHash, DrbgNonce(keyFromPrivate(key), msgHash))
  IN  BuildSignedArray(rlpArray, ComputeV(t.chainId, sig.recoveryParam), sig)
ResultAlone(o, t, key) ==
  LET rlpArray == BuildRlpArray(t, t.chainId)
  IN  IF o = "sign"
      THEN encodeRlp(SignedWith(t, rlpArray,
                                hexToBuffer(ethersKeccak256(encodeRlp(rlpArray))), key))
      ELSE <<"0", "x">> \o
           BufferToHex(rlpEncode(AsRlpList(
             SignedWith(t, rlpArray,
                        BufferFromUtf8(keccak256(rlpEncode(AsRlpList(rlpArray)))), key))))

\* a step of a call in progress leaves the call's transaction, its private key
\* and every variable outside the call as they were
CallsLeaveArgumentsAlone ==
  /\ \A i \in Tasks :
       tasks[i].pc # "idle" =>
         /\ tasks'[i].tx = tasks[i].tx
         /\ tasks'[i].privateKey = tasks[i].privateKey
         /\ tasks[i].pc = "done" => tasks'[i] = tasks[i]
  /\ UNCHANGED <<codecVars, signVars, message, rpcVars, walletVars, cmd, walletFile>>

\* C23: a signing call changes neither the transaction it is given nor the private
\* key nor any state outside the call, and under every interleaving of two calls
\* each returns what it returns when run alone.
C23_SigningCallsDoNotInterfere ==
  /\ [][CallsLeaveArgumentsAlone]_vars
  /\ [](\A i \in Tasks :
          tasks[i].pc = "done" =>
            tasks[i].result = ResultAlone(tasks[i].op, tasks[i].tx, tasks[i].privateKey))

\* witness of C23: both tasks called Transaction.sign on different transactions,
\* the second call started while the first was suspended, and both have returned
C23_Witness ==
  /\ \A i \in Tasks : tasks[i].pc = "done" /\ tasks[i].op = "Transaction.sign"
  /\ tasks[1].tx # tasks[2].tx
  /\ tasks[1].result # tasks[2].result

(***************************************************************************)
(* Minimal ABI encoder (abi_encoder.ts; utils.ts holds the same text with  *)
(* the module's own keccak256)                                             *)
(***************************************************************************)
\* JavaScript values handed as arguments: [kind, val] with kind "string" (val a
\* string), "number" (an integer), "boolean", "array" (a sequence of values) or
\* "undefined"
JsString(s) == [kind |-> "string", val |-> s]
JsNumber(n) == [kind |-> "number", val |-> n]
JsBoolean(b) == [kind |-> "boolean", val |-> b]
JsArray(a) == [kind |-> "array", val |-> a]
JsUndefined == [kind |-> "undefined", val |-> 0]

\* the type names of the model's ABIs
T_address == <<"a", "d", "d", "r", "e", "s", "s">>
T_uint256 == <<"u", "i", "n", "t", "2", "5", "6">>
T_int256 == <<"i", "n", "t", "2", "5", "6">>
T_bool == <<"b", "o", "o", "l">>
T_bytes32 == <<"b", "y", "t", "e", "s", "3", "2">>
T_uint256Array == <<"u", "i", "n", "t", "2", "5", "6", "[", "]">>
T_string == <<"s", "t", "r", "i", "n", "g">>
T_tuple == <<"t", "u", "p", "l", "e">>

\* the code points of the characters of a function signature
SignatureCharTable ==
  CodePointTable
    @@ [c \in {"l"} |-> 108] @@ [c \in {"p"} |-> 112] @@ [c \in {"y"} |-> 121]
    @@ [c \in {"("} |-> 40] @@ [c \in {")"} |-> 41] @@ [c \in {","} |-> 44]
    @@ [c \in {"["} |-> 91] @@ [c \in {"]"} |-> 93]

\* keccak256(signature): both copies hash the UTF-8 bytes of the text and yield
\* 64 hex digits
SignatureHash(signature) ==
  BufferToHex(Keccak256(AsArray([i \in 1..Len(signature) |->
                                   SignatureCharTable[signature[i]]])))

\* String.prototype.startsWith(p)
StartsWith(s, p) == Len(s) >= Len(p) /\ SubSeq(s, 1, Len(p)) = p

\* String.prototype.toLowerCase on hex text
ToLowerCase(s) ==
  AsArray([i \in 1..Len(s) |->
             IF \E k \in 1..6 : HexUpper[k] = s[i]
             THEN HexDigits[HexVal(s[i]) + 1] ELSE s[i]])

Zeros(n) == AsArray([i \in 1..n |-> "0"])

\* text.padStart(64, '0') and text.padEnd(64, '0'): a text of 64 characters or
\* more is returned as it is
PadStart64(text) == IF Len(text) >= 64 THEN text ELSE Zeros(64 - Len(text)) \o text
PadEnd64(text) == IF Len(text) >= 64 THEN text ELSE text \o Zeros(64 - Len(text))

\* types.join(',')
RECURSIVE JoinUpTo(_, _)
JoinUpTo(types, n) ==
  IF n = 0 THEN << >>
  ELSE IF n = 1 THEN types[1]
  ELSE JoinUpTo(types, n - 1) \o <<",">> \o types[n]

\* a bigint: its sign and the hex digits of its magnitude, without leading zeros
BigIntOf(neg, hex) == [threw |-> FALSE, neg |-> neg, hex |-> hex]
BigIntThrew(kind) == [threw |-> TRUE, neg |-> FALSE, hex |-> kind]

StripZeros(hex) ==
  LET nz == {i \in 1..Len(hex) : hex[i] # "0"}
  IN  IF nz = {} THEN <<"0">>
      ELSE SubSeq(hex, CHOOSE i \in nz : \A k \in nz : i <= k, Len(hex))

IsDecimal(s) == Len(s) >= 1 /\ \A i \in 1..Len(s) : \E k \in 1..10 : HexDigits[k] = s[i]

RECURSIVE DecimalToIntUpTo(_, _)
DecimalToIntUpTo(s, n) ==
  IF n = 0 THEN 0 ELSE 10 * DecimalToIntUpTo(s, n - 1) + HexVal(s[n])

\* BigInt(text): "" is 0n; "0x" and hex digits, or decimal digits with an optional
\* sign, denote an integer; any other text is a SyntaxError
StringToBigInt(s) ==
  IF s = << >> THEN BigIntOf(FALSE, <<"0">>)
  ELSE IF StartsWith0x(s)
  THEN IF Len(s) > 2 /\ \A i \in 3..Len(s) : IsHexChar(s[i])
       THEN BigIntOf(FALSE, StripZeros(ToLowerCase(Slice(s, 2))))
       ELSE BigIntThrew("SyntaxError")
  ELSE IF IsDecimal(s) THEN BigIntOf(FALSE, ToString16(DecimalToIntUpTo(s, Len(s))))
  ELSE IF s[1] = "-" /\ IsDecimal(Slice(s, 1))
  THEN LET n == DecimalToIntUpTo(Slice(s, 1), Len(s) - 1)
       IN  BigIntOf(n # 0, ToString16(n))
  ELSE BigIntThrew("SyntaxError")

\* String(array) for an array of integers: the elements joined by ","
ArrayToString(a) == JoinUpTo([i \in 1..Len(a) |-> ToString10(a[i])], Len(a))

\* BigInt(value)
ToBigInt(v) ==
  CASE v.kind = "string" -> StringToBigInt(v.val)
    [] v.kind = "number" ->
         BigIntOf(v.val < 0, ToString16(IF v.val < 0 THEN 0 - v.val ELSE v.val))
    [] v.kind = "boolean" -> BigIntOf(FALSE, IF v.val THEN <<"1">> ELSE <<"0">>)
    [] v.kind = "array" -> StringToBigInt(ArrayToString(v.val))
    [] OTHER -> BigIntThrew("TypeError")

\* bn.toString(16): a negative value is written with a minus sign
BigIntToString16(bn) == IF bn.neg THEN <<"-">> \o bn.hex ELSE bn.hex

\* the truth value of a JavaScript value
Truthy(v) ==
  CASE v.kind = "string" -> v.val # << >>
    [] v.kind = "number" -> v.val # 0
    [] v.kind = "boolean" -> v.val
    [] v.kind = "array" -> TRUE
    [] OTHER -> FALSE

UnsupportedType == "Error: Type not supported in minimal ABI encoder"
FunctionNotFound == "Error: Function not found in ABI"

\* one pass of the loop body: the 64 or more characters appended for input i, or
\* the error thrown; any type name that begins with "uint" or "int" takes the
\* integer branch
EncodeArg(type, a) ==
  IF type = T_address
  THEN IF a.kind # "string" THEN Threw("TypeError")
       ELSE LET lower == ToLowerCase(a.val)
                clean == IF StartsWith0x(lower) THEN Slice(lower, 2) ELSE lower
            IN  Returned(PadStart64(clean))
  ELSE IF StartsWith(type, <<"u", "i", "n", "t">>) \/ StartsWith(type, <<"i", "n", "t">>)
  THEN LET bn == ToBigInt(a)
       IN  IF bn.threw THEN Threw(bn.hex) ELSE Returned(PadStart64(BigIntToString16(bn)))
  ELSE IF type = T_bool
  THEN Returned(PadStart64(IF Truthy(a) THEN <<"1">> ELSE <<"0">>))
  ELSE IF type = T_bytes32
  THEN IF a.kind # "string" THEN Threw("TypeError")
       ELSE Returned(PadEnd64(IF StartsWith0x(a.val) THEN Slice(a.val, 2) ELSE a.val))
  ELSE Threw(UnsupportedType)

\* args[i]: undefined past the end of the array
ArgAt(args, i) == IF i <= Len(args) THEN args[i] ELSE JsUndefined

\* the loop over the inputs: the first error ends it
RECURSIVE EncodeArgsUpTo(_, _, _)
EncodeArgsUpTo(types, args, n) ==
  IF n = 0 THEN Returned(<< >>)
  ELSE LET before == EncodeArgsUpTo(types, args, n - 1)
       IN  IF before.threw THEN before
           ELSE LET piece == EncodeArg(types[n], ArgAt(args, n))
                IN  IF piece.threw THEN piece ELSE Returned(before.val \o piece.val)

\* abi.find(item => item.type === 'function' && item.name === functionName)
FindFunction(abi, functionName) ==
  LET hits == {i \in 1..Len(abi) : abi[i].type = "function" /\ abi[i].name = functionName}
  IN  IF hits = {} THEN 0 ELSE CHOOSE i \in hits : \A k \in hits : i <= k

encodeFunctionCall(abi, functionName, args) ==
  LET at == FindFunction(abi, functionName)
  IN  IF at = 0 THEN Threw(FunctionNotFound)
      ELSE LET types == abi[at].inputs
               signature ==
                 functionName \o <<"(">> \o JoinUpTo(types, Len(types)) \o <<")">>
               methodSelector == SubSeq(SignatureHash(signature), 1, 8)
               encodedArgs == EncodeArgsUpTo(types, args, Len(types))
           IN  IF encodedArgs.threw THEN encodedArgs
               ELSE Returned(<<"0", "x">> \o methodSelector \o encodedArgs.val)

\* arguments: a 20-byte address in mixed case, a 32-byte word, 2^256 as hex text
\* (65 digits: wider than a word, and as an address or bytes32 longer than its width)
MixedCaseAddress ==
  <<"0", "x">> \o AsArray([i \in 1..40 |-> IF i % 3 = 0 THEN "A" ELSE HexDigits[(i % 16) + 1]])
Word32 == <<"0", "x">> \o AsArray([i \in 1..64 |-> HexDigits[((7 * i) % 16) + 1]])
TwoTo256 == <<"0", "x", "1">> \o Zeros(64)

MaxInputs == 2

\* an input of the selected function with the argument handed for it
Slot(type, a) == [type |-> type, arg |-> a]
Slots ==
  {Slot(T_address, a) : a \in {JsString(MixedCaseAddress), JsString(TwoTo256), JsNumber(5)}}
    \cup {Slot(T_uint256, a) :
            a \in {JsString(<<"5">>), JsString(TwoTo256), JsNumber(300), JsUndefined}}
    \cup {Slot(T_int256, a) : a \in {JsString(<<"-", "1">>), JsNumber(0 - 2)}}
    \cup {Slot(T_bool, a) : a \in {JsBoolean(TRUE), JsBoolean(FALSE), JsUndefined}}
    \cup {Slot(T_bytes32, a) : a \in {JsString(Word32), JsString(TwoTo256)}}
    \cup {Slot(T_uint256Array, a) :
            a \in {JsArray(<<5>>), JsArray(<<1, 2>>), JsString(<<"5">>)}}
    \cup {Slot(T_string, a) : a \in {JsString(<<"5">>)}}
    \cup {Slot(T_tuple, a) : a \in {JsArray(<<5>>)}}

SlotLists == UNION {{AsArray(f) : f \in [1..n -> Slots]} : n \in 0..MaxInputs}

FunctionItem(name, types) == [type |-> "function", name |-> name, inputs |-> types]
EventItem(name, types) == [type |-> "event", name |-> name, inputs |-> types]

\* a call of encodeFunctionCall: the ABI holds an event and a function named f
AbiCall(functionName, slots) ==
  [abi |-> <<EventItem(<<"f">>, <<T_address>>),
             FunctionItem(<<"f">>, AsArray([i \in 1..Len(slots) |-> slots[i].type]))>>,
   functionName |-> functionName,
   args |-> AsArray([i \in 1..Len(slots) |-> slots[i].arg])]
AbiCalls == {AbiCall(<<"f">>, l) : l \in SlotLists} \cup {AbiCall(<<"g">>, << >>)}

CallEncodeFunctionCall ==
  /\ fn = "none"
  /\ \E call \in AbiCalls :
       /\ fn' = "encodeFunctionCall"
       /\ arg' = call
       /\ ret' = encodeFunctionCall(call.abi, call.functionName, call.args)
  /\ UNCHANGED <<signVars, extVars>>

NextAbi == CallEncodeFunctionCall
SpecAbi == Init /\ [][NextAbi]_vars

\* the input types of the function the call selected
SelectedTypes == arg.abi[FindFunction(arg.abi, arg.functionName)].inputs

IsDigits(s) == \A i \in 1..Len(s) : \E k \in 1..10 : HexDigits[k] = s[i]

\* address, uintN, intN, bool or bytes32
IsSupportedType(type) ==
  \/ type \in {T_address, T_bool, T_bytes32}
  \/ StartsWith(type, <<"u", "i", "n", "t">>) /\ IsDigits(Slice(type, 4))
  \/ StartsWith(type, <<"i", "n", "t">>) /\ IsDigits(Slice(type, 3))

EncodeCalled == fn = "encodeFunctionCall" /\ FindFunction(arg.abi, arg.functionName) # 0

\* C24 as stated: when an input of the selected function has a type other than
\* address, uintN, intN, bool or bytes32, encodeFunctionCall throws the
\* unsupported-type error and returns no calldata.
C24_UnsupportedTypeRejected ==
  (EncodeCalled /\ \E i \in 1..Len(SelectedTypes) : ~IsSupportedType(SelectedTypes[i]))
    => ret = Threw(UnsupportedType)

\* what the code does reject: a call whose first unencodable input has a type
\* that is neither address, bool, bytes32 nor begins with "uint" or "int"
NonIntegerLikeTypesRejected ==
  (EncodeCalled /\ \E i \in 1..Len(SelectedTypes) : SelectedTypes[i] \in {T_string, T_tuple})
    => ret.threw

\* an argument of the kind its type asks for: hex text for address and bytes32,
\* an integer (as text or number) for uintN and intN, a boolean for bool
ArgFits(type, a) ==
  IF type \in {T_address, T_bytes32}
  THEN a.kind = "string" /\ StartsWith0x(a.val) /\ \A i \in 3..Len(a.val) : IsHexChar(a.val[i])
  ELSE IF type = T_bool THEN a.kind = "boolean"
  ELSE a.kind \in {"string", "number"} /\ ~ToBigInt(a).threw

AllArgsFit ==
  /\ \A i \in 1..Len(SelectedTypes) : IsSupportedType(SelectedTypes[i])
  /\ Len(arg.args) = Len(SelectedTypes)
  /\ \A i \in 1..Len(SelectedTypes) : ArgFits(SelectedTypes[i], arg.args[i])

\* C25 as stated: for arguments of supported types the calldata is "0x", 8 hex
\* digits and 64 hex digits per input, also for negative integers, integers
\* wider than 256 bits and address or bytes32 arguments longer than their width.
C25_CalldataLayout ==
  (EncodeCalled /\ AllArgsFit) =>
    /\ ~ret.threw
    /\ Len(ret.val) = 2 + 8 + 64 * Len(SelectedTypes)
    /\ StartsWith0x(ret.val)
    /\ \A i \in 3..Len(ret.val) : IsHexChar(ret.val[i])

\* an argument within its type's width: a non-negative integer below 2^256, hex
\* text of at most 40 (address) or 64 (bytes32) digits
ArgInRange(type, a) ==
  IF type = T_address THEN Len(a.val) <= 42
  ELSE IF type = T_bytes32 THEN Len(a.val) <= 66
  ELSE IF type = T_bool THEN TRUE
  ELSE ~ToBigInt(a).neg /\ Len(ToBigInt(a).hex) <= 64

\* the layout of C25 holds when every argument is within its type's width
CalldataLayoutInRange ==
  (/\ EncodeCalled
   /\ AllArgsFit
   /\ \A i \in 1..Len(SelectedTypes) : ArgInRange(SelectedTypes[i], arg.args[i]))
    => /\ ~ret.threw
       /\ Len(ret.val) = 2 + 8 + 64 * Len(SelectedTypes)
       /\ StartsWith0x(ret.val)
       /\ \A i \in 3..Len(ret.val) : IsHexChar(ret.val[i])

(***************************************************************************)
(* The send command (mod.ts, in its two versions, and the earlier CLI)     *)
(***************************************************************************)
\* the three texts of the command, named by where their action begins
SendVariants == {"mod.ts:86", "mod.ts:288", "part_005:86"}

\* the awaits of the action after the wallet was loaded, in the order of the text
SendOrder(variant) ==
  CASE variant = "mod.ts:86" ->
         <<"getNonce", "getGasPrice", "getChainId", "estimateGas", "sign",
           "sendRawTransaction", "done">>
    [] variant = "mod.ts:288" ->
         <<"getChainId", "getNonce", "getGasPrice", "estimateGas", "sign",
           "sendRawTransaction", "done">>
    [] OTHER ->
         <<"getBalance", "getNonce", "getGasPrice", "getChainId", "estimateGas", "sign",
           "sendRawTransaction", "done">>

After(variant, at) ==
  LET order == SendOrder(variant)
  IN  order[(CHOOSE i \in 1..Len(order) : order[i] = at) + 1]

\* what the command leaves behind, in order: requests, the signing, reports
Requested(method, ok, text, t) ==
  [kind |-> "request", what |-> method, ok |-> ok, result |-> text, tx |-> t]
Reported(text) ==
  [kind |-> "report", what |-> text, ok |-> TRUE, result |-> << >>, tx |-> NoSendTx]
Signed(ok, t) == [kind |-> "signed", what |-> "sign", ok |-> ok, result |-> << >>, tx |-> t]

\* BigInt(result) and parseInt(result, 16) of a "0x" quantity
BigIntValue(text) == HexToInt(ToBigInt(JsString(text)).hex)
ParseInt16(text) == HexToInt(IF StartsWith0x(text) THEN Slice(text, 2) ELSE text)

\* the options of the command line and the answers of the node
SendOpts ==
  {[to |-> ToAddress, value |-> <<"1">>], [to |-> << >>, value |-> <<"1">>],
   [to |-> ToAddress, value |-> << >>]}
NonceResults == {<<"0", "x", "0">>, <<"0", "x", "1">>}
GasPriceResults == {<<"0", "x", "1">>, <<"0", "x", "7">>}
ChainIdResults == {<<"0", "x", "1">>, <<"0", "x", "5">>}
\* 21000 and 30000
EstimateResults == {<<"0", "x", "5", "2", "0", "8">>, <<"0", "x", "7", "5", "3", "0">>}
BalanceResults == {<<"0", "x", "0">>}
HashResults == {<<"0", "x", "a", "b">>}

DefaultGasLimit == 21000
MinimumGas == 22000

\* the transaction object the action builds from its locals, with every number
\* taken as zero
BuildTx_Defaults(c) ==
  [nonce |-> 0, gasPrice |-> 0, gasLimit |-> 0, to |-> c.opts.to, value |-> c.opts.value,
   data |-> <<"0", "x">>, chainId |-> 0]

\* the transaction object the action builds from its locals (the later mod.ts
\* names the gas field gas and writes data as "0x0")
BuildTx(c) ==
  [nonce |-> c.nonce, gasPrice |-> c.gasPrice, gasLimit |-> c.gasLimit, to |-> c.opts.to,
   value |-> c.opts.value,
   data |-> IF c.variant = "mod.ts:288" THEN <<"0", "x", "0">> ELSE <<"0", "x">>,
   chainId |-> c.chainId]

Log(c, events) == [c EXCEPT !.log = c.log \o events]
AtSend(at) == cmd.name = "send" /\ cmd.pc = at

\* the action starts: without --to or --value it prints an error and exits
send_start ==
  /\ cmd.name = "none"
  /\ \E variant \in SendVariants, opts \in SendOpts :
       cmd' =
         IF opts.to = << >> \/ opts.value = << >>
         THEN [NoCmd EXCEPT !.name = "send", !.variant = variant, !.opts = opts,
                            !.pc = "exited",
                            !.log = <<Reported("Missing required options")>>]
         ELSE [NoCmd EXCEPT !.name = "send", !.variant = variant, !.opts = opts,
                            !.pc = "loadWalletFromFile"]
  /\ UNCHANGED <<codecVars, signVars, message, rpcVars, walletVars, tasks, walletFile>>

\* await loadWalletFromFile(): the wallet, or an error message and exit
send_loadWalletFromFile ==
  /\ AtSend("loadWalletFromFile")
  /\ \E found \in BOOLEAN :
       cmd' =
         IF found THEN [cmd EXCEPT !.pc = SendOrder(cmd.variant)[1]]
         ELSE [Log(cmd, <<Reported("Wallet file not found")>>) EXCEPT !.pc = "exited"]
  /\ UNCHANGED <<codecVars, signVars, message, rpcVars, walletVars, tasks, walletFile>>

\* await rpc.getBalance(wallet.address), outside any try
send_getBalance ==
  /\ AtSend("getBalance")
  /\ \/ \E r \in BalanceResults :
          cmd' = [Log(cmd, <<Requested("eth_getBalance", TRUE, r, NoSendTx)>>)
                    EXCEPT !.pc = After(cmd.variant, "getBalance")]
     \/ cmd' = [Log(cmd, <<Requested("eth_getBalance", FALSE, << >>, NoSendTx)>>)
                  EXCEPT !.pc = "rejected"]
  /\ UNCHANGED <<codecVars, signVars, message, rpcVars, walletVars, tasks, walletFile>>

\* await rpc.getNonce(wallet.address), outside any try
send_getNonce ==
  /\ AtSend("getNonce")
  /\ \/ \E r \in NonceResults :
          cmd' = [Log(cmd, <<Requested("eth_getTransactionCount", TRUE, r, NoSendTx)>>)
                    EXCEPT !.pc = After(cmd.variant, "getNonce"), !.nonce = BigIntValue(r)]
     \/ cmd' = [Log(cmd, <<Requested("eth_getTransactionCount", FALSE, << >>, NoSendTx)>>)
                  EXCEPT !.pc = "rejected"]
  /\ UNCHANGED <<codecVars, signVars, message, rpcVars, walletVars, tasks, walletFile>>

\* await rpc.getGasPrice(), outside any try
send_getGasPrice ==
  /\ AtSend("getGasPrice")
  /\ \/ \E r \in GasPriceResults :
          cmd' = [Log(cmd, <<Requested("eth_gasPrice", TRUE, r, NoSendTx)>>)
                    EXCEPT !.pc = After(cmd.variant, "getGasPrice"),
                           !.gasPrice = BigIntValue(r)]
     \/ cmd' = [Log(cmd, <<Requested("eth_gasPrice", FALSE, << >>, NoSendTx)>>)
                  EXCEPT !.pc = "rejected"]
  /\ UNCHANGED <<codecVars, signVars, message, rpcVars, walletVars, tasks, walletFile>>

\* await rpc.getChainId(), outside any try
send_getChainId ==
  /\ AtSend("getChainId")
  /\ \/ \E r \in ChainIdResults :
          cmd' = [Log(cmd, <<Requested("eth_chainId", TRUE, r, NoSendTx)>>)
                    EXCEPT !.pc = After(cmd.variant, "getChainId"),
                           !.chainId = ParseInt16(r)]
     \/ cmd' = [Log(cmd, <<Requested("eth_chainId", FALSE, << >>, NoSendTx)>>)
                  EXCEPT !.pc = "rejected"]
  /\ UNCHANGED <<codecVars, signVars, message, rpcVars, walletVars, tasks, walletFile>>

\* await rpc.estimateGas(..).  mod.ts:86 and part_005 wrap it in try/catch and
\* fall back to 21000; mod.ts:288 awaits it outside any try and uses at least 22000
send_estimateGas ==
  /\ AtSend("estimateGas")
  /\ \/ \E r \in EstimateResults :
          cmd' = [Log(cmd, <<Requested("eth_estimateGas", TRUE, r, NoSendTx)>>)
                    EXCEPT !.pc = After(cmd.variant, "estimateGas"),
                           !.gasLimit =
                             IF cmd.variant = "mod.ts:288" /\ BigIntValue(r) <= MinimumGas
                             THEN MinimumGas ELSE BigIntValue(r)]
     \/ cmd' =
          IF cmd.variant = "mod.ts:288"
          THEN [Log(cmd, <<Requested("eth_estimateGas", FALSE, << >>, NoSendTx)>>)
                  EXCEPT !.pc = "rejected"]
          ELSE [Log(cmd, <<Requested("eth_estimateGas", FALSE, << >>, NoSendTx),
                           Reported("Error estimating gas, using default 21000")>>)
                  EXCEPT !.pc = After(cmd.variant, "estimateGas"),
                         !.gasLimit = DefaultGasLimit]
  /\ UNCHANGED <<codecVars, signVars, message, rpcVars, walletVars, tasks, walletFile>>

\* the transaction is built and signed (wallet.sign, wallet.signTransaction or
\* sign), outside any try
send_sign ==
  /\ AtSend("sign")
  /\ \E t \in {BuildTx(cmd)} :
       \/ cmd' = [Log(cmd, <<Signed(TRUE, t)>>)
                    EXCEPT !.pc = After(cmd.variant, "sign"), !.tx = t, !.rawTx = t]
       \/ cmd' = [Log(cmd, <<Signed(FALSE, t)>>) EXCEPT !.pc = "rejected", !.tx = t]
  /\ UNCHANGED <<codecVars, signVars, message, rpcVars, walletVars, tasks, walletFile>>

\* try { await rpc.sendRawTransaction(rawTx) } catch: either way a report
send_sendRawTransaction ==
  /\ AtSend("sendRawTransaction")
  /\ \/ \E r \in HashResults :
          cmd' = [Log(cmd, <<Requested("eth_sendRawTransaction", TRUE, r, cmd.rawTx),
                             Reported("Transaction sent successfully")>>)
                    EXCEPT !.pc = After(cmd.variant, "sendRawTransaction")]
     \/ cmd' = [Log(cmd, <<Requested("eth_sendRawTransaction", FALSE, << >>, cmd.rawTx),
                           Reported("Error sending transaction")>>)
                  EXCEPT !.pc = After(cmd.variant, "sendRawTransaction")]
  /\ UNCHANGED <<codecVars, signVars, message, rpcVars, walletVars, tasks, walletFile>>

(***************************************************************************)
(* The contract-call command (main.ts, mod.ts)                             *)
(***************************************************************************)
CallVariants == {"main.ts:125", "mod.ts:357"}

\* --value has the default '0': the option is an empty text only when it is
\* given as one
CallOpts == {[to |-> ToAddress, value |-> v] : v \in {<<"0">>, <<"1">>, << >>}}

CallStarted == "Calling contract function..."
CallSucceeded == "Contract function called successfully"
CallFailed == "Error sending contract call transaction"
AbiFailed == "Error reading ABI file or encoding function call"

\* a call that was started: the promise it returned is pending
Issued(method) ==
  [kind |-> "issued", what |-> method, ok |-> TRUE, result |-> << >>, tx |-> NoSendTx]

\* the method the action calls: writeContract when opts.value is a non-empty text
CallMethod(opts) == IF opts.value # << >> THEN "writeContract" ELSE "readContract"

AtCall(at) == cmd.name = "contract-call" /\ cmd.pc = at

\* the action starts, reads the ABI file and parses the parameters (outer try): a
\* failure there is reported and the process exits; then spinner.start
contract_call_start ==
  /\ cmd.name = "none"
  /\ \E variant \in CallVariants, opts \in CallOpts, abiRead \in BOOLEAN :
       cmd' =
         IF ~abiRead
         THEN [NoCmd EXCEPT !.name = "contract-call", !.variant = variant, !.opts = opts,
                            !.pc = "exited", !.log = <<Reported(AbiFailed)>>]
         ELSE [NoCmd EXCEPT !.name = "contract-call", !.variant = variant, !.opts = opts,
                            !.pc = IF opts.value # << >> THEN "loadWalletFromFile"
                                   ELSE "call",
                            !.log = <<Reported(CallStarted)>>]
  /\ UNCHANGED <<codecVars, signVars, message, rpcVars, walletVars, tasks, walletFile>>

\* await Wallet.loadWalletFromFile(): the wallet, or an error message and exit
contract_call_loadWalletFromFile ==
  /\ AtCall("loadWalletFromFile")
  /\ \E found \in BOOLEAN :
       cmd' =
         IF found THEN [cmd EXCEPT !.pc = "getChainId"]
         ELSE [Log(cmd, <<Reported("Wallet file not found")>>) EXCEPT !.pc = "exited"]
  /\ UNCHANGED <<codecVars, signVars, message, rpcVars, walletVars, tasks, walletFile>>

\* await client.getChainId() inside the inner try: a failure is caught and reported
contract_call_getChainId ==
  /\ AtCall("getChainId")
  /\ \/ \E r \in ChainIdResults :
          cmd' = [Log(cmd, <<Requested("eth_chainId", TRUE, r, NoSendTx)>>)
                    EXCEPT !.pc = "call", !.chainId = ParseInt16(r)]
     \/ cmd' = [Log(cmd, <<Requested("eth_chainId", FALSE, << >>, NoSendTx),
                           Reported(CallFailed)>>)
                  EXCEPT !.pc = "done"]
  /\ UNCHANGED <<codecVars, signVars, message, rpcVars, walletVars, tasks, walletFile>>

\* client.writeContract({..}) or client.readContract({..}) is called and its
\* promise is dropped: the next statement, spinner.succeed, runs at once
contract_call_call ==
  /\ AtCall("call")
  /\ cmd' = [Log(cmd, <<Issued(CallMethod(cmd.opts)), Reported(CallSucceeded)>>)
               EXCEPT !.pc = "callPending"]
  /\ UNCHANGED <<codecVars, signVars, message, rpcVars, walletVars, tasks, walletFile>>

\* the dropped promise settles after the action returned: a rejection reaches no
\* catch block
contract_call_settles ==
  /\ AtCall("callPending")
  /\ \E ok \in BOOLEAN :
       cmd' = [Log(cmd, <<Requested(CallMethod(cmd.opts), ok, << >>, NoSendTx)>>)
                 EXCEPT !.pc = IF ok THEN "done" ELSE "unhandledRejection"]
  /\ UNCHANGED <<codecVars, signVars, message, rpcVars, walletVars, tasks, walletFile>>

NextContractCall ==
  \/ contract_call_start
  \/ contract_call_loadWalletFromFile
  \/ contract_call_getChainId
  \/ contract_call_call
  \/ contract_call_settles

NextSend ==
  \/ send_start
  \/ send_loadWalletFromFile
  \/ send_getBalance
  \/ send_getNonce
  \/ send_getGasPrice
  \/ send_getChainId
  \/ send_estimateGas
  \/ send_sign
  \/ send_sendRawTransaction
NextCli == NextSend \/ NextContractCall
SpecCli == Init /\ [][NextCli]_vars

\* positions of the log
RequestsOf(method, ok) ==
  {i \in 1..Len(cmd.log) :
     cmd.log[i].kind = "request" /\ cmd.log[i].what = method /\ cmd.log[i].ok = ok}
Sends == RequestsOf("eth_sendRawTransaction", TRUE) \cup RequestsOf("eth_sendRawTransaction", FALSE)
EstimateFailed == RequestsOf("eth_estimateGas", FALSE) # {}
SignThrew == \E i \in 1..Len(cmd.log) : cmd.log[i].kind = "signed" /\ ~cmd.log[i].ok

\* after a failed estimate the command goes on with gasLimit 21000 up to the send
FallsBackTo21000 ==
  /\ cmd.pc = "rejected" => SignThrew
  /\ cmd.gasLimit = DefaultGasLimit
  /\ cmd.pc = "done" => \E i \in Sends : cmd.log[i].tx.gasLimit = DefaultGasLimit

\* C26 as stated: in the send command a failure of eth_estimateGas never aborts
\* the command; the transaction is built with gasLimit 21000, signed and submitted.
C26_EstimateFailureFallsBack == (cmd.name = "send" /\ EstimateFailed) => FallsBackTo21000

\* the statement of C26 for the two texts that catch the failure
EstimateFailureFallsBackWhereCaught ==
  (cmd.name = "send" /\ cmd.variant # "mod.ts:288" /\ EstimateFailed) => FallsBackTo21000

PrerequisiteMethods == {"eth_getTransactionCount", "eth_gasPrice", "eth_chainId"}

\* C27: eth_sendRawTransaction is requested at most once, after the nonce, gas
\* price and chain id requests succeeded and the transaction built from their
\* values was signed; if one of them fails nothing is sent; a failed send is
\* reported and not retried.
C27_SendOnceAfterPrerequisites ==
  cmd.name = "send" =>
    /\ Cardinality(Sends) <= 1
    /\ \A i \in Sends :
         \E n \in RequestsOf("eth_getTransactionCount", TRUE),
            g \in RequestsOf("eth_gasPrice", TRUE),
            c \in RequestsOf("eth_chainId", TRUE) :
         \E k \in 1..(i - 1) :
           /\ n < k /\ g < k /\ c < k
           /\ cmd.log[k].kind = "signed" /\ cmd.log[k].ok
           /\ cmd.log[k].tx.nonce = BigIntValue(cmd.log[n].result)
           /\ cmd.log[k].tx.gasPrice = BigIntValue(cmd.log[g].result)
           /\ cmd.log[k].tx.chainId = ParseInt16(cmd.log[c].result)
           /\ cmd.log[i].tx = cmd.log[k].tx
    /\ (\E m \in PrerequisiteMethods : RequestsOf(m, FALSE) # {}) => Sends = {}
    /\ \A i \in RequestsOf("eth_sendRawTransaction", FALSE) :
         /\ i + 1 = Len(cmd.log)
         /\ cmd.log[i + 1] = Reported("Error sending transaction")

\* witness of C27: the node answered nonce 1 and chain id 5, the transaction was
\* signed and sent once, the send failed and the failure was reported
C27_Witness ==
  /\ cmd.name = "send" /\ cmd.pc = "done"
  /\ RequestsOf("eth_sendRawTransaction", FALSE) # {}
  /\ cmd.tx.nonce = 1 /\ cmd.tx.chainId = 5 /\ cmd.tx.gasPrice = 7

\* positions of the log where the contract call completed
CallsCompleted(ok) == RequestsOf("writeContract", ok) \cup RequestsOf("readContract", ok)
ReportsOf(text) == {i \in 1..Len(cmd.log) : cmd.log[i] = Reported(text)}

\* C28 as stated: in the contract-call command the success report is emitted only
\* after the contract call completed without error; if the call fails the failure
\* report is emitted and the success report is not.
C28_SuccessReportAfterCompletion ==
  cmd.name = "contract-call" =>
    /\ \A i \in ReportsOf(CallSucceeded) : \E k \in CallsCompleted(TRUE) : k < i
    /\ CallsCompleted(FALSE) # {} =>
         (ReportsOf(CallFailed) # {} /\ ReportsOf(CallSucceeded) = {})

\* what the code ensures: the success report follows the start of the call, and a
\* failure before the call (the chain id request) is reported without it
SuccessReportAfterCallStarted ==
  cmd.name = "contract-call" =>
    /\ \A i \in ReportsOf(CallSucceeded) : i > 1 /\ cmd.log[i - 1].kind = "issued"
    /\ RequestsOf("eth_chainId", FALSE) # {} =>
         (ReportsOf(CallFailed) # {} /\ ReportsOf(CallSucceeded) = {})

(***************************************************************************)
(* The wallet file (saveWalletToFile, loadWalletFromFile)                  *)
(***************************************************************************)
\* A text is a sequence of characters; a property name and a mnemonic word are
\* written as one element each.
JsonQuote == "\""
JsonBackslash == "\\"
JsonWhitespace == {"\n", " "}

\* a property value: a string, or undefined
Defined(text) == [defined |-> TRUE, text |-> text]
Undefined == [defined |-> FALSE, text |-> << >>]

\* the two classes: the earlier one (wallet.ts:17) has privateKey and address, the
\* later one (wallet.ts:100, and the functions of mod.ts) also has mnemonic
StoreVariants == {"wallet.ts:53", "wallet.ts:159"}
WalletObject(mnemonic, key, address) ==
  [mnemonic |-> mnemonic, privateKey |-> Defined(key), address |-> Defined(address)]

\* a string as JSON.stringify writes it: in quotes, with a backslash before each
\* quote and backslash
JsonString(text) ==
  <<JsonQuote>>
    \o ConcatRange([i \in 1..Len(text) |->
                      IF text[i] \in {JsonQuote, JsonBackslash}
                      THEN <<JsonBackslash, text[i]>> ELSE <<text[i]>>], 1, Len(text))
    \o <<JsonQuote>>

\* JSON.stringify(object, null, 2): one member per line, indented by two spaces;
\* a property whose value is undefined is left out
RECURSIVE JsonMembers(_, _)
JsonMembers(members, n) ==
  IF n = 0 THEN << >>
  ELSE (IF n = 1 THEN << >> ELSE JsonMembers(members, n - 1) \o <<",">>)
         \o <<"\n", " ", " ">> \o JsonString(<<members[n].name>>) \o <<":", " ">>
         \o JsonString(members[n].value.text)

JsonStringify(members) ==
  LET present == SelectSeq(members, LAMBDA m : m.value.defined)
  IN  IF present = << >> THEN <<"{", "}">>
      ELSE <<"{">> \o JsonMembers(present, Len(present)) \o <<"\n", "}">>

Member(name, value) == [name |-> name, value |-> value]

\* the object literal saveWalletToFile hands to JSON.stringify
SavedMembers(variant, w) ==
  IF variant = "wallet.ts:53"
  THEN <<Member("privateKey", w.privateKey), Member("address", w.address)>>
  ELSE <<Member("mnemonic", w.mnemonic), Member("privateKey", w.privateKey),
         Member("address", w.address)>>

\* Deno.writeTextFile(path, data) keeping what the old content has beyond the data
WriteTextFile_NoTruncate(old, data) ==
  IF Len(old) > Len(data) THEN data \o SubSeq(old, Len(data) + 1, Len(old)) ELSE data

\* Deno.writeTextFile(path, data): the file is created or truncated, then written
WriteTextFile(old, data) == data

\* the first position from i on that holds no whitespace (Len + 1 if none)
SkipWhitespace(text, i) ==
  LET rest == {k \in i..Len(text) : text[k] \notin JsonWhitespace}
  IN  IF rest = {} THEN Len(text) + 1 ELSE CHOOSE k \in rest : \A h \in rest : k <= h

\* the number of backslashes that end just before position k
BackslashesBefore(text, k) ==
  LET others == {h \in 1..(k - 1) : text[h] # JsonBackslash}
  IN  IF others = {} THEN k - 1
      ELSE (k - 1) - (CHOOSE h \in others : \A g \in others : g <= h)

\* the quote that closes the string opened at position open (0 if none)
ClosingQuote(text, open) ==
  LET ends == {k \in (open + 1)..Len(text) :
                 text[k] = JsonQuote /\ BackslashesBefore(text, k) % 2 = 0}
  IN  IF ends = {} THEN 0 ELSE CHOOSE k \in ends : \A h \in ends : k <= h

\* the content of a JSON string: of each pair backslash-character the second
JsonUnescape(body) ==
  ConcatRange([i \in 1..Len(body) |->
                 IF body[i] = JsonBackslash /\ BackslashesBefore(body, i) % 2 = 0
                 THEN << >> ELSE <<body[i]>>], 1, Len(body))

ParseFailed == [threw |-> TRUE, members |-> << >>]

\* the members of an object from position i on, up to the closing brace
RECURSIVE ParseMembers(_, _, _)
ParseMembers(text, i, members) ==
  LET nameOpen == SkipWhitespace(text, i)
      nameClose == IF nameOpen <= Len(text) /\ text[nameOpen] = JsonQuote
                   THEN ClosingQuote(text, nameOpen) ELSE 0
      colon == SkipWhitespace(text, nameClose + 1)
      valueOpen == SkipWhitespace(text, colon + 1)
      valueClose == IF valueOpen <= Len(text) /\ text[valueOpen] = JsonQuote
                    THEN ClosingQuote(text, valueOpen) ELSE 0
      after == SkipWhitespace(text, valueClose + 1)
  IN  IF nameClose = 0 \/ colon > Len(text) \/ valueClose = 0 \/ after > Len(text)
      THEN ParseFailed
      ELSE IF text[colon] # ":" \/ nameClose # nameOpen + 2
      THEN ParseFailed
      ELSE LET found ==
                 Append(members,
                        Member(text[nameOpen + 1],
                               Defined(JsonUnescape(SubSeq(text, valueOpen + 1,
                                                           valueClose - 1)))))
           IN  IF text[after] = "," THEN ParseMembers(text, after + 1, found)
               ELSE IF text[after] = "}" /\ SkipWhitespace(text, after + 1) > Len(text)
               THEN [threw |-> FALSE, members |-> found]
               ELSE ParseFailed

\* JSON.parse(text) of an object whose values are strings; any other text is a
\* SyntaxError
JsonParse(text) ==
  LET open == SkipWhitespace(text, 1)
  IN  IF open > Len(text) \/ text[open] # "{" THEN ParseFailed
      ELSE LET next == SkipWhitespace(text, open + 1)
           IN  IF next <= Len(text) /\ text[next] = "}"
                  /\ SkipWhitespace(text, next + 1) > Len(text)
               THEN [threw |-> FALSE, members |-> << >>]
               ELSE ParseMembers(text, open + 1, << >>)

\* obj.name: the value of the last member of that name, or undefined
Property(members, name) ==
  LET hits == {i \in 1..Len(members) : members[i].name = name}
  IN  IF hits = {} THEN Undefined
      ELSE members[CHOOSE i \in hits : \A h \in hits : h <= i].value

\* new Wallet(obj.privateKey, obj.address) and new Wallet(obj.mnemonic, ..)
LoadedWallet(variant, members) ==
  [mnemonic |-> IF variant = "wallet.ts:53" THEN Undefined
                ELSE Property(members, "mnemonic"),
   privateKey |-> Property(members, "privateKey"),
   address |-> Property(members, "address")]

\* the text of a mnemonic: its words with a space between them
MnemonicText(words) ==
  ConcatRange([i \in 1..Len(words) |-> IF i = 1 THEN <<words[i]>> ELSE <<" ", words[i]>>],
              1, Len(words))

MaxStored == 31

\* the wallets handed to saveWalletToFile: wallets that Wallet.create makes, one
\* with a short mnemonic, one whose mnemonic holds a quote and a backslash
CreatedWalletObject(entropy) ==
  WalletObject(Defined(MnemonicText(generateMnemonic(entropy))),
               KeyString(DerivePrivateKey(entropy)),
               privateKeyToAddress(KeyString(DerivePrivateKey(entropy))))
StoredWallets ==
  {CreatedWalletObject(e) : e \in 0..MaxStored}
    \cup {WalletObject(Defined(<<"a", JsonQuote, "b", JsonBackslash>>), KeyString(1),
                       privateKeyToAddress(KeyString(1))),
          WalletObject(Defined(<<"a">>), KeyString(2), privateKeyToAddress(KeyString(2)))}

\* the wallet as the class of the variant holds it
AsVariant(variant, w) ==
  IF variant = "wallet.ts:53" THEN [w EXCEPT !.mnemonic = Undefined] ELSE w

\* saveWalletToFile(wallet): the JSON text of the wallet replaces the file
saveWalletToFile ==
  /\ \E variant \in StoreVariants, w \in StoredWallets :
       /\ fn' = "saveWalletToFile"
       /\ arg' = [variant |-> variant, wallet |-> AsVariant(variant, w)]
       /\ ret' = Returned(<< >>)
       /\ walletFile' =
            [exists |-> TRUE,
             text |-> WriteTextFile(walletFile.text,
                                    JsonStringify(SavedMembers(variant,
                                                               AsVariant(variant, w))))]
  /\ UNCHANGED <<signVars, message, rpcVars, walletVars, tasks, cmd>>

\* loadWalletFromFile(): the wallet the file describes; when the file is missing
\* or is no JSON, an error message and Deno.exit(1)
loadWalletFromFile ==
  /\ \E variant \in StoreVariants :
     \E parsed \in {IF walletFile.exists THEN JsonParse(walletFile.text) ELSE ParseFailed} :
       /\ fn' = "loadWalletFromFile"
       /\ ret' = IF parsed.threw THEN Threw("Deno.exit(1)")
                 ELSE Returned([variant |-> variant,
                                wallet |-> LoadedWallet(variant, parsed.members)])
  /\ UNCHANGED <<arg, signVars, message, rpcVars, walletVars, tasks, cmd, walletFile>>

NextStore == saveWalletToFile \/ loadWalletFromFile
SpecStore == Init /\ [][NextStore]_vars

\* C29: after a save has completed, loadWalletFromFile returns a wallet whose
\* privateKey and address, and mnemonic where both classes have one, equal those of
\* the wallet last saved, whatever was saved before.
C29_SaveLoadRoundTrip ==
  (fn = "loadWalletFromFile" /\ walletFile.exists) =>
    /\ ~ret.threw
    /\ ret.val.wallet.privateKey = arg.wallet.privateKey
    /\ ret.val.wallet.address = arg.wallet.address
    /\ (ret.val.variant = "wallet.ts:159" /\ arg.variant = "wallet.ts:159") =>
         ret.val.wallet.mnemonic = arg.wallet.mnemonic

\* witness of C29: the wallet whose mnemonic holds a quote and a backslash was
\* saved and loaded with its mnemonic
C29_Witness ==
  /\ fn = "loadWalletFromFile"
  /\ ~ret.threw
  /\ ret.val.wallet.mnemonic = Defined(<<"a", JsonQuote, "b", JsonBackslash>>)
  /\ ret.val.wallet.privateKey = Defined(KeyString(1))

(***************************************************************************)
(* parseUnits (utils.ts, tx.ts)                                            *)
(***************************************************************************)
\* amount.split('.'): the pieces between the dots
DotsOf(amount) == {i \in 1..Len(amount) : amount[i] = "."}
NthDot(amount, n) ==
  IF Cardinality(DotsOf(amount)) < n THEN Len(amount) + 1
  ELSE CHOOSE i \in DotsOf(amount) : Cardinality({k \in DotsOf(amount) : k < i}) = n - 1

\* parts[0]
WholePart(amount) == SubSeq(amount, 1, NthDot(amount, 1) - 1)

\* parts[1] || '': the piece after the first dot, up to the second
FractionPart(amount) ==
  IF DotsOf(amount) = {} THEN << >>
  ELSE SubSeq(amount, NthDot(amount, 1) + 1, NthDot(amount, 2) - 1)

\* the fraction left as it is
TruncateFraction_Keep(fraction, decimals) == fraction

\* if (fraction.length > decimals) fraction = fraction.slice(0, decimals)
TruncateFraction(fraction, decimals) ==
  IF Len(fraction) > decimals THEN SubSeq(fraction, 1, decimals) ELSE fraction

\* while (fraction.length < decimals) fraction += '0'
PadFraction(fraction, decimals) ==
  IF Len(fraction) < decimals THEN fraction \o Zeros(decimals - Len(fraction)) ELSE fraction

\* a bigint of the model's range as an integer
BigIntToInt(bn) == IF bn.neg THEN 0 - HexToInt(bn.hex) ELSE HexToInt(bn.hex)

parseUnits(amount, decimals) ==
  LET whole == WholePart(amount)
      fraction == PadFraction(TruncateFraction(FractionPart(amount), decimals), decimals)
      bn == StringToBigInt(whole \o fraction)
  IN  IF bn.threw THEN Threw(bn.hex) ELSE Returned(BigIntToInt(bn))

MaxWholeLen == 2
MaxFractionLen == 3
MaxDecimals == 2
AmountDigits == {"0", "1", "9"}
DigitStrings(n) == UNION {{AsArray(f) : f \in [1..k -> AmountDigits]} : k \in 0..n}

\* amounts "w", "w.f", and three that are no decimal amounts
Amounts ==
  DigitStrings(MaxWholeLen)
    \cup {w \o <<".">> \o f : w \in DigitStrings(MaxWholeLen), f \in DigitStrings(MaxFractionLen)}
    \cup {<<"-", "1", ".", "5">>, <<"1", ".", "2", ".", "3">>, <<"1", "e", "3">>}

CallParseUnits ==
  /\ fn = "none"
  /\ \E amount \in Amounts, decimals \in 0..MaxDecimals :
       /\ fn' = "parseUnits"
       /\ arg' = [amount |-> amount, decimals |-> decimals]
       /\ ret' = parseUnits(amount, decimals)
  /\ UNCHANGED <<signVars, extVars>>

NextUnits == CallParseUnits
SpecUnits == Init /\ [][NextUnits]_vars

\* a decimal amount: digits, with at most one dot among them
IsDecimalAmount(amount) ==
  /\ Cardinality(DotsOf(amount)) <= 1
  /\ \A i \in 1..Len(amount) : amount[i] = "." \/ \E k \in 1..10 : HexDigits[k] = amount[i]

RECURSIVE Pow10(_)
Pow10(e) == IF e = 0 THEN 1 ELSE 10 * Pow10(e - 1)

\* the number a digit string denotes (0 for the empty string)
DigitsValue(digits) == DecimalToIntUpTo(digits, Len(digits))

\* f': the first d digits of f, scaled as if f had d digits
ScaledFraction(f, d) ==
  IF Len(f) >= d THEN DigitsValue(SubSeq(f, 1, d))
  ELSE DigitsValue(f) * Pow10(d - Len(f))

\* C30: for a decimal amount "w.f" of non-negative digits and decimals d,
\* parseUnits returns w * 10^d + f', f' being f cut to d digits (never rounded)
\* and padded with zeros to d digits; without a fractional part it returns w * 10^d.
C30_ParseUnitsValue ==
  (fn = "parseUnits" /\ IsDecimalAmount(arg.amount)) =>
    ret = Returned(DigitsValue(WholePart(arg.amount)) * Pow10(arg.decimals)
                     + (IF DotsOf(arg.amount) = {} THEN 0
                        ELSE ScaledFraction(FractionPart(arg.amount), arg.decimals)))

\* witness of C30: "19.199" with 2 decimals is 1919, the third digit cut, not
\* rounded up
C30_Witness ==
  /\ fn = "parseUnits"
  /\ arg = [amount |-> <<"1", "9", ".", "1", "9", "9">>, decimals |-> 2]
  /\ ret = Returned(1919)

====
